---- MODULE Spec2Model ----
(***************************************************************************)
(* Model of the websrc_cbw dashboard: the browser client (main.js, ui.js,  *)
(* state.js, api.js) polling the simulated device served by server.js, and *)
(* the server's store, credentials, sessions and relay timers.             *)
(*                                                                         *)
(* One JavaScript task (a handler run to its next await) is one action.    *)
(* The network is the only suspension point: a request in flight is an     *)
(* element of fetches (polls) or cmds (relay commands).                    *)
(***************************************************************************)
EXTENDS Integers, Sequences, FiniteSets, TLC

VARIABLES
    store,          \* server.js: store.creds and store.config
    disk,           \* server.js: config_store.json as saveStore last wrote it
    diskOk,         \* whether a write to the store file succeeds
    sessions,       \* server.js: the map sid -> { username, expiresAt }
    issued,         \* server.js: how many salts, session ids and timeouts
                    \* have been generated so far
    now,            \* Date.now(), in ms since the server started
    resp,           \* the last HTTP request handled and its response
    trail,          \* history of the server (observation only): every salt
                    \* ever stored, the session ids logged out, the pending
                    \* pulses whose relay has since received an on/off
                    \* command (touched), or has since been switched off by
                    \* another pulse's timeout or removed by a resize (cut),
                    \* how many polls the dashboard had issued when the
                    \* last config write was stored (savedAt)
    dev,            \* server.js: dev.relays, dev.din
    pulses,         \* server.js: pending setTimeout callbacks of /pulse
    minRecRefresh,  \* the cadence hint the device puts in every snapshot
    pc,             \* main.js: position of boot()
    state,          \* state.js: the shared client state object
    dom,            \* the document of index.html as ui.js builds and writes it
    timers,         \* the browser's active setInterval timers
    fetches,        \* polls (refreshStatus -> getCustomState) in flight
    cmds,           \* relay commands (handleRelayAction) in flight
    count,          \* ids handed out so far: timers, polls, commands
    hist            \* history of poll completions (observation only): the
                    \* result of the last one, the hint of the last success
                    \* and whether it repeated the hint before it, the issue
                    \* number of the poll in state.lastStatus and the highest
                    \* issue number among the successful polls

vars == <<store, disk, diskOk, sessions, issued, now, resp, trail, dev, pulses,
          minRecRefresh, pc, state, dom, timers, fetches, cmds, count, hist>>

authVars == <<disk, diskOk, sessions, issued, now, resp, trail>>

serverVars == <<store, dev, pulses, minRecRefresh, authVars>>

clientVars == <<pc, state, dom, timers, fetches, cmds, count, hist>>

----------------------------------------------------------------------------
(* Bounds of the model *)

MaxRelays == 4
MaxDis == 2
MaxPolls == 3
MaxCmds == 1
MaxDashCmds == 2    \* relay commands of the dashboard beside the setup page
MaxSessions == 2    \* logins served
MaxSalts == 3       \* salts drawn, the first start included
MaxLate == 1        \* ms the clock runs on after the first session lifetime
MaxPulses == 2      \* pulse requests served
MaxTicks == 1       \* 10 ms steps of the clock after each 10 s

----------------------------------------------------------------------------
(* Small helpers *)

Max(a, b) == IF a >= b THEN a ELSE b
Min(a, b) == IF a <= b THEN a ELSE b

RECURSIVE SeqFilterIdx(_, _)
\* the 1-based positions k of seq s whose entry is enabled, in order
SeqFilterIdx(s, k) ==
    IF k > Len(s) THEN <<>>
    ELSE IF s[k].enabled THEN <<k>> \o SeqFilterIdx(s, k + 1)
    ELSE SeqFilterIdx(s, k + 1)

RECURSIVE CountTrue(_)
CountTrue(s) == IF s = <<>> THEN 0
                ELSE (IF Head(s) THEN 1 ELSE 0) + CountTrue(Tail(s))

----------------------------------------------------------------------------
(* server.js: store, device, snapshot endpoint, relay endpoints *)

\* the cadence hints the model lets the device send: the simulator sends "1";
\* the others are what ui.js must cope with (other devices, proxies)
Hints == {"1", "2", "0.1", "30", "1.5005", "abc", "undefined", "null"}

\* a point of the config: { id, name, enabled }
Point(id, name, enabled) == [id |-> id, name |-> name, enabled |-> enabled]

\* the value lists the model draws the stored config from
ValueLists ==
    { <<>>,
      << Point("vin", "VIN", TRUE), Point("reg1", "Register 1", TRUE),
         Point("ow1", "OneWire 1", TRUE) >>,
      << Point("ow1", "OneWire 1", TRUE), Point("vin", "VIN", FALSE),
         Point("v1", "V 1", TRUE) >>,
      << Point("reg1", "Register 1", TRUE), Point("reg1", "Register 1", TRUE) >> }

\* the lists of up to n points with ids prefix1.. and names "label 1"..,
\* for every combination of enabled flags
PointLists(n, prefix, label) ==
    UNION { { [i \in 1..k |-> Point(prefix \o ToString(i),
                                    label \o " " \o ToString(i), f[i])] :
                f \in [1..k -> BOOLEAN] } : k \in 0..n }

\* session lifetime: 8 hours
SESSION_TTL_MS == 28800000

\* a saltHex of 0 and a hashHex of <<>> stand for the empty string
defaultStore ==
    [creds |-> [username |-> "admin", saltHex |-> 0, hashHex |-> <<>>,
                iter |-> 150000],
     config |->
        [pageTitle |-> "CASTLEROAD",
         relays |-> [i \in 1..4 |->
                        Point("r" \o ToString(i), "Relay " \o ToString(i), TRUE)],
         dis |-> [i \in 1..4 |->
                     Point("d" \o ToString(i), "Digital Input " \o ToString(i), TRUE)],
         values |-> << Point("vin", "VIN", TRUE),
                       Point("reg1", "Register 1", TRUE),
                       Point("ow1", "OneWire 1", TRUE) >>]]

\* PBKDF2 as an ideal hash: equal digests only for equal inputs
pbkdf2Hash(password, saltHex, iter) == <<password, saltHex, iter>>

\* crypto.randomBytes(16) after n earlier draws: a value no earlier draw gave
makeSaltHex(n) == n + 1

\* store after ensureCredsHashed(store), n salts having been drawn before
ensureCredsHashed(s, n) ==
    IF s.creds.saltHex # 0 /\ s.creds.hashHex # <<>> THEN s
    ELSE LET saltHex == makeSaltHex(n)
             iter == IF s.creds.iter = 0 THEN 150000 ELSE s.creds.iter
         IN [s EXCEPT !.creds.saltHex = saltHex,
                      !.creds.hashHex = pbkdf2Hash("admin", saltHex, iter),
                      !.creds.iter = iter]

\* crypto.randomBytes(24) after n earlier draws
newSessionId(n) == n + 1

\* the public config with the account name added to it
publicConfig_WithUser ==
    [pageTitle |-> store.config.pageTitle,
     relays |-> store.config.relays,
     dis |-> store.config.dis,
     values |-> store.config.values,
     username |-> store.creds.username]

\* GET /api/publicConfig
publicConfig ==
    [pageTitle |-> store.config.pageTitle,
     relays |-> store.config.relays,
     dis |-> store.config.dis,
     values |-> store.config.values]

\* `${s} #${color}` is kept as the pair <<s, color>>
withColor(s, color) == <<s, color>>

\* GET /customState.json?showUnits=1&showColors=1
customState ==
    [relay |-> [i \in 1..Len(store.config.relays) |->
                    IF i <= Len(dev.relays) /\ dev.relays[i] THEN "1" ELSE "0"],
     digitalInput |-> [i \in 1..Len(store.config.dis) |->
                    IF i <= Len(dev.din) /\ dev.din[i] THEN "1" ELSE "0"],
     vin |-> withColor("24.4 V", "Grey"),
     register1 |-> withColor(ToString(dev.register1), "Grey"),
     oneWire1 |-> withColor("72.05 F", "Grey"),
     uptimeMs |-> "ms",
     minRecRefresh |-> minRecRefresh]

\* Number(n) * 10 for the path segments :n of the model; fin is
\* Number.isFinite. Number("abc") is NaN, Number("1.5") is 1.5.
NumberTimes10(n) ==
    CASE n = "abc" -> [fin |-> FALSE, v |-> 0]
      [] n = "1.5" -> [fin |-> TRUE, v |-> 15]
      [] OTHER     -> [fin |-> TRUE,
                       v |-> 10 * (CHOOSE k \in 0..9 : ToString(k) = n)]

\* relayIndex(n) * 10: the 0-based index, or -1, in tenths
relayIndex(n) ==
    LET x == NumberTimes10(n)
        i == x.v - 10
    IN IF ~x.fin THEN -10
       ELSE IF i < 0 \/ i >= 10 * Len(dev.relays) THEN -10 ELSE i

\* arr[i] = v on a JavaScript array (0-based i): a write past the end extends it
SetAt(arr, i, v) ==
    [j \in 1..Max(Len(arr), i + 1) |->
        IF j = i + 1 THEN v ELSE IF j <= Len(arr) THEN arr[j] ELSE FALSE]

\* dev.relays[i] = v for an index i in tenths: an index that is no integer
\* names a property of the array object and leaves its elements and its
\* length as they are
SetRelay(arr, i, v) == IF i % 10 = 0 THEN SetAt(arr, i \div 10, v) ELSE arr

----------------------------------------------------------------------------
(* server.js: request handling. A request body field is <<>> when it is
   missing (undefined or null) and <<v>> when it is v. A handler is the
   record of the server state and the response it leaves behind. *)

\* the JSON value [] in a field of a request body: an empty array, which is
\* truthy and which String() turns into ""; no string of the model is
\* spelled like this token
EmptyArray == "[]"

\* String(x ?? "")
StringOf(x) == IF x = <<>> \/ x = <<EmptyArray>> THEN "" ELSE x[1]

\* the string kept whole
clampStr_Whole(x, maxLen) == StringOf(x)

clampStr(x, maxLen) ==
    LET str == StringOf(x) IN
    IF Len(str) > maxLen THEN SubSeq(str, 1, maxLen) ELSE str

\* the map m with key k set to v, and with key k deleted
Put(m, k, v) == [x \in DOMAIN m \cup {k} |-> IF x = k THEN v ELSE m[x]]
Delete(m, k) == [x \in DOMAIN m \ {k} |-> m[x]]

\* the server as a request finds it; status 0: no response written yet.
\* cookie is the Set-Cookie header: 0 none, a session id, -1 the cleared cookie
Srv ==
    [store |-> store, disk |-> disk, sessions |-> sessions, issued |-> issued,
     dev |-> dev, pulses |-> pulses, status |-> 0, body |-> <<>>, cookie |-> 0]

\* the handler threw: what follows the throw does not run, and the default
\* error handler of Express answers the request with 500 and an error page
Threw(S) == S.status = 500

\* res.status(status).json(body)
json(S, status, body) ==
    IF Threw(S) THEN S ELSE [S EXCEPT !.status = status, !.body = body]

fail(S, status, error) == json(S, status, [ok |-> FALSE, error |-> error])

\* a failed write that puts the store back as the request found it
saveStore_Restoring(S) ==
    IF diskOk THEN [S EXCEPT !.disk = S.store]
    ELSE [S EXCEPT !.store = store, !.status = 500, !.body = [html |-> "Error"]]

\* saveStore(store): fs.writeFileSync and fs.renameSync throw when the write
\* fails, and the store file stays as it was
saveStore(S) ==
    IF diskOk THEN [S EXCEPT !.disk = S.store]
    ELSE [S EXCEPT !.status = 500, !.body = [html |-> "Error"]]

\* getSession with a sliding lifetime: every valid access pushes expiresAt on
getSession_Sliding(tok) ==
    IF tok = 0 \/ tok \notin DOMAIN sessions
    THEN [sessions |-> sessions, s |-> <<>>]
    ELSE IF now > sessions[tok].expiresAt
    THEN [sessions |-> Delete(sessions, tok), s |-> <<>>]
    ELSE [sessions |-> [sessions EXCEPT ![tok].expiresAt = now + SESSION_TTL_MS],
          s |-> <<tok>>]

\* getSession(req) for the cookie sid=tok (tok = 0: no cookie): the session
\* map it leaves and the session found, <<>> for null
getSession(tok) ==
    IF tok = 0 \/ tok \notin DOMAIN sessions
    THEN [sessions |-> sessions, s |-> <<>>]
    ELSE IF now > sessions[tok].expiresAt
    THEN [sessions |-> Delete(sessions, tok), s |-> <<>>]
    ELSE [sessions |-> sessions, s |-> <<tok>>]

\* requireAuth letting every request through
requireAuth_Open(tok, out) == out

\* requireAuth in front of the route whose outcome is out (no route touches
\* the session map)
requireAuth(tok, out) ==
    LET g == getSession(tok) IN
    IF g.s = <<>>
    THEN fail([Srv EXCEPT !.sessions = g.sessions], 401, "auth_required")
    ELSE [out EXCEPT !.sessions = g.sessions]

\* login telling an unknown user from a wrong password
authLogin_TellsUser(username0, password0) ==
    LET username == clampStr(username0, 64)
        password == StringOf(password0)
        creds == store.creds
    IN IF username = "" \/ password = "" THEN fail(Srv, 400, "missing_fields")
       ELSE IF username # creds.username THEN fail(Srv, 401, "unknown_user")
       ELSE IF pbkdf2Hash(password, creds.saltHex, creds.iter) # creds.hashHex
       THEN fail(Srv, 401, "invalid_credentials")
       ELSE LET sid == newSessionId(issued.sids) IN
            [Srv EXCEPT
                !.sessions = Put(sessions, sid,
                                 [username |-> creds.username,
                                  expiresAt |-> now + SESSION_TTL_MS]),
                !.issued.sids = sid,
                !.cookie = sid, !.status = 200, !.body = [ok |-> TRUE]]

\* login opening a session before the password is checked
authLogin_SessionFirst(username0, password0) ==
    LET username == clampStr(username0, 64)
        password == StringOf(password0)
        creds == store.creds
        sid == newSessionId(issued.sids)
        opened == [Srv EXCEPT
                     !.sessions = Put(sessions, sid,
                                      [username |-> creds.username,
                                       expiresAt |-> now + SESSION_TTL_MS]),
                     !.issued.sids = sid]
    IN IF username = "" \/ password = "" THEN fail(Srv, 400, "missing_fields")
       ELSE IF username # creds.username THEN fail(Srv, 401, "invalid_credentials")
       ELSE IF pbkdf2Hash(password, creds.saltHex, creds.iter) # creds.hashHex
       THEN fail(opened, 401, "invalid_credentials")
       ELSE [opened EXCEPT !.cookie = sid, !.status = 200, !.body = [ok |-> TRUE]]

\* POST /api/auth/login
authLogin(username0, password0) ==
    LET username == clampStr(username0, 64)
        password == StringOf(password0)
        creds == store.creds
    IN IF username = "" \/ password = "" THEN fail(Srv, 400, "missing_fields")
       ELSE IF username # creds.username THEN fail(Srv, 401, "invalid_credentials")
       ELSE IF pbkdf2Hash(password, creds.saltHex, creds.iter) # creds.hashHex
       THEN fail(Srv, 401, "invalid_credentials")
       ELSE LET sid == newSessionId(issued.sids) IN
            [Srv EXCEPT
                !.sessions = Put(sessions, sid,
                                 [username |-> creds.username,
                                  expiresAt |-> now + SESSION_TTL_MS]),
                !.issued.sids = sid,
                !.cookie = sid, !.status = 200, !.body = [ok |-> TRUE]]

\* logout that clears the cookie and keeps the server-side record
authLogout_CookieOnly(tok) ==
    LET g == getSession(tok) IN
    [Srv EXCEPT !.sessions = g.sessions,
                !.cookie = -1, !.status = 200, !.body = [ok |-> TRUE]]

\* POST /api/auth/logout
authLogout(tok) ==
    LET g == getSession(tok) IN
    [Srv EXCEPT !.sessions = IF g.s # <<>> THEN Delete(g.sessions, g.s[1])
                             ELSE g.sessions,
                !.cookie = -1, !.status = 200, !.body = [ok |-> TRUE]]

\* every change hashes its newPassword, the empty one too, under the new salt
newCreds_AlwaysRehash(creds, newUsername, newPassword, salt) ==
    LET iter == IF creds.iter = 0 THEN 150000 ELSE creds.iter
    IN [creds EXCEPT !.username = newUsername,
                     !.saltHex = salt,
                     !.hashHex = pbkdf2Hash(newPassword, salt, iter),
                     !.iter = iter]

\* the credentials after a successful change; salt is the new salt
newCreds(creds, newUsername, newPassword, salt) ==
    LET iter == IF creds.iter = 0 THEN 150000 ELSE creds.iter
        named == [creds EXCEPT !.username = newUsername]
    IN IF newPassword # ""
       THEN [named EXCEPT !.saltHex = salt,
                          !.hashHex = pbkdf2Hash(newPassword, salt, iter),
                          !.iter = iter]
       ELSE named

\* the change route writing the new username before it checks oldPassword
changeRoute_MutateFirst(oldPassword0, newUsername0, newPassword0) ==
    LET oldPassword == StringOf(oldPassword0)
        newUsername == clampStr(IF newUsername0 = <<>> THEN <<store.creds.username>>
                                ELSE newUsername0, 64)
        newPassword == StringOf(newPassword0)
        creds == store.creds
        S1 == saveStore([Srv EXCEPT !.store.creds.username = newUsername])
    IN IF pbkdf2Hash(oldPassword, creds.saltHex, creds.iter) # creds.hashHex
       THEN fail(S1, 401, "invalid_old_password")
       ELSE IF newUsername = "" THEN fail(Srv, 400, "bad_username")
       ELSE IF newPassword # "" /\ Len(newPassword) < 4
       THEN fail(Srv, 400, "password_too_short")
       ELSE LET saltHex == makeSaltHex(issued.salts)
                next == newCreds(creds, newUsername, newPassword, saltHex)
            IN json(saveStore([Srv EXCEPT
                        !.store.creds = next,
                        !.issued.salts = IF newPassword # "" THEN saltHex ELSE @]),
                    200, [ok |-> TRUE, username |-> next.username])

\* the change route hashing the new password under the salt already stored
changeRoute_KeepsSalt(oldPassword0, newUsername0, newPassword0) ==
    LET oldPassword == StringOf(oldPassword0)
        newUsername == clampStr(IF newUsername0 = <<>> THEN <<store.creds.username>>
                                ELSE newUsername0, 64)
        newPassword == StringOf(newPassword0)
        creds == store.creds
    IN IF pbkdf2Hash(oldPassword, creds.saltHex, creds.iter) # creds.hashHex
       THEN fail(Srv, 401, "invalid_old_password")
       ELSE IF newUsername = "" THEN fail(Srv, 400, "bad_username")
       ELSE IF newPassword # "" /\ Len(newPassword) < 4
       THEN fail(Srv, 400, "password_too_short")
       ELSE LET next == newCreds(creds, newUsername, newPassword, creds.saltHex)
            IN json(saveStore([Srv EXCEPT !.store.creds = next]),
                    200, [ok |-> TRUE, username |-> next.username])

\* the route of POST /api/auth/change, behind requireAuth
changeRoute(oldPassword0, newUsername0, newPassword0) ==
    LET oldPassword == StringOf(oldPassword0)
        newUsername == clampStr(IF newUsername0 = <<>> THEN <<store.creds.username>>
                                ELSE newUsername0, 64)
        newPassword == StringOf(newPassword0)
        creds == store.creds
    IN IF pbkdf2Hash(oldPassword, creds.saltHex, creds.iter) # creds.hashHex
       THEN fail(Srv, 401, "invalid_old_password")
       ELSE IF newUsername = "" THEN fail(Srv, 400, "bad_username")
       ELSE IF newPassword # "" /\ Len(newPassword) < 4
       THEN fail(Srv, 400, "password_too_short")
       ELSE LET saltHex == makeSaltHex(issued.salts)
                next == newCreds(creds, newUsername, newPassword, saltHex)
            IN json(saveStore([Srv EXCEPT
                        !.store.creds = next,
                        !.issued.salts = IF newPassword # "" THEN saltHex ELSE @]),
                    200, [ok |-> TRUE, username |-> next.username])

\* a successful change that ends every session but the caller's
authChange_EndsOthers(tok, oldPassword0, newUsername0, newPassword0) ==
    LET out == requireAuth(tok, changeRoute(oldPassword0, newUsername0, newPassword0))
    IN IF out.status = 200
       THEN [out EXCEPT !.sessions = [t \in {tok} |-> out.sessions[tok]]]
       ELSE out

\* POST /api/auth/change
authChange(tok, oldPassword0, newUsername0, newPassword0) ==
    requireAuth(tok, changeRoute(oldPassword0, newUsername0, newPassword0))

\* prefix.toUpperCase() for the prefixes of normalizeConfig
toUpperCase(prefix) ==
    CASE prefix = "r" -> "R" [] prefix = "d" -> "D" [] prefix = "v" -> "V"

\* a request entry without fields: {}
NoFields == [id |-> <<>>, name |-> <<>>, enabled |-> <<>>]

\* a request entry { id, name, enabled }
Entry(id, name, enabled) == << [id |-> id, name |-> name, enabled |-> enabled] >>

\* normalizeList(list, prefix): list is <<>> (not an array) or <<entries>>;
\* an entry is <<>> (null) or <<fields>>, a field <<>> (missing) or <<v>>; an
\* empty id or name is falsy and a missing enabled is not a boolean
normalizeList(list, prefix) ==
    LET arr == IF list = <<>> THEN <<>> ELSE list[1] IN
    [i \in 1..Len(arr) |->
        LET it == IF arr[i] = <<>> THEN NoFields ELSE arr[i][1] IN
        [id |-> clampStr(IF it.id \in {<<>>, <<"">>}
                         THEN <<prefix \o ToString(i)>> ELSE it.id, 24),
         name |-> clampStr(IF it.name \in {<<>>, <<"">>}
                           THEN <<toUpperCase(prefix) \o " " \o ToString(i)>>
                           ELSE it.name, 40),
         enabled |-> IF it.enabled = <<>> THEN TRUE ELSE it.enabled[1]]]

\* normalizeConfig(cfg): cfg is <<>> (missing) or <<config>>
normalizeConfig(cfg) ==
    LET c == IF cfg = <<>>
             THEN [pageTitle |-> <<>>, relays |-> <<>>, dis |-> <<>>, values |-> <<>>]
             ELSE cfg[1]
    IN [pageTitle |-> clampStr(IF c.pageTitle \in {<<>>, <<"">>}
                               THEN <<"CASTLEROAD">> ELSE c.pageTitle, 40),
        relays |-> normalizeList(c.relays, "r"),
        dis |-> normalizeList(c.dis, "d"),
        values |-> normalizeList(c.values, "v")]

\* a device array pushed or popped to length n
Resize(arr, n) == [i \in 1..n |-> IF i <= Len(arr) THEN arr[i] ELSE FALSE]

\* dev after ensureDevArrayLengths() under the store st
ensureDevArrayLengths(st, d) ==
    [d EXCEPT !.relays = Resize(@, Len(st.config.relays)),
              !.din = Resize(@, Len(st.config.dis))]

\* the route GET /api/publicConfig: no session is asked for
getPublicConfig == json(Srv, 200, publicConfig)

\* GET /api/config
getConfig(tok) ==
    requireAuth(tok, json(Srv, 200, [ok |-> TRUE, config |-> store.config,
                                     username |-> store.creds.username]))

\* POST /api/config
postConfig(tok, incoming) ==
    requireAuth(tok,
        LET st == [store EXCEPT !.config = normalizeConfig(incoming)]
            saved == saveStore([Srv EXCEPT !.store = st])
        IN IF Threw(saved) THEN saved
           ELSE json([saved EXCEPT !.dev = ensureDevArrayLengths(st, dev)],
                     200, [ok |-> TRUE, config |-> st.config]))

\* the reset without `fresh.creds = store.creds`: a factory reset
resetConfig_Factory(tok) ==
    requireAuth(tok,
        LET fresh == ensureCredsHashed(defaultStore, issued.salts)
            saved == saveStore([Srv EXCEPT
                        !.store = fresh,
                        !.issued.salts = fresh.creds.saltHex])
        IN IF Threw(saved) THEN saved
           ELSE json([saved EXCEPT !.dev = ensureDevArrayLengths(fresh, dev)],
                     200, [ok |-> TRUE, config |-> fresh.config]))

\* POST /api/config/reset
resetConfig(tok) ==
    requireAuth(tok,
        LET fresh == ensureCredsHashed([defaultStore EXCEPT !.creds = store.creds],
                                       issued.salts)
            saved == saveStore([Srv EXCEPT
                        !.store = fresh,
                        !.issued.salts = IF fresh.creds.saltHex = store.creds.saltHex
                                         THEN @ ELSE fresh.creds.saltHex])
        IN IF Threw(saved) THEN saved
           ELSE json([saved EXCEPT !.dev = ensureDevArrayLengths(fresh, dev)],
                     200, [ok |-> TRUE, config |-> fresh.config]))

\* the relay routes with the pulse width clamped from below only
relayRoute_NoCeiling(n, action, ms0) ==
    LET i == relayIndex(n) IN
    IF i < 0 THEN fail(Srv, 400, "bad relay number")
    ELSE IF action = "pulse"
    THEN LET msRaw == IF ms0 = <<>> THEN 500 ELSE ms0[1]
             ms == Max(10, msRaw)
             id == issued.timeouts + 1
         IN json([Srv EXCEPT
                    !.dev.relays = SetRelay(dev.relays, i, TRUE),
                    !.pulses = IF i % 10 = 0
                               THEN @ \cup {[id |-> id, i |-> i \div 10,
                                             at |-> now, due |-> now + ms]}
                               ELSE @,
                    !.issued.timeouts = id],
                 200, [ok |-> TRUE, relay |-> i + 10, pulsed_ms |-> ms])
    ELSE json([Srv EXCEPT !.dev.relays = SetRelay(dev.relays, i, action = "on")],
              200, [ok |-> TRUE, relay |-> i + 10, on |-> (action = "on")])

\* POST /api/relay/:n/on|off|pulse with body { ms } (ms = <<>>: no ms sent);
\* the relay number of the response is in tenths. The timeout of a pulse
\* whose index is no integer writes the property again and is left out.
relayRoute(n, action, ms0) ==
    LET i == relayIndex(n) IN
    IF i < 0 THEN fail(Srv, 400, "bad relay number")
    ELSE IF action = "pulse"
    THEN LET msRaw == IF ms0 = <<>> THEN 500 ELSE ms0[1]
             ms == Max(10, Min(10000, msRaw))
             id == issued.timeouts + 1
         IN json([Srv EXCEPT
                    !.dev.relays = SetRelay(dev.relays, i, TRUE),
                    !.pulses = IF i % 10 = 0
                               THEN @ \cup {[id |-> id, i |-> i \div 10,
                                             at |-> now, due |-> now + ms]}
                               ELSE @,
                    !.issued.timeouts = id],
                 200, [ok |-> TRUE, relay |-> i + 10, pulsed_ms |-> ms])
    ELSE json([Srv EXCEPT !.dev.relays = SetRelay(dev.relays, i, action = "on")],
              200, [ok |-> TRUE, relay |-> i + 10, on |-> (action = "on")])

----------------------------------------------------------------------------
(* server.js: the server's steps *)

\* the cookie sid=tok names a session that has not expired
ValidSession(tok) ==
    tok \in DOMAIN sessions /\ now <= sessions[tok].expiresAt

\* the pending pulses whose relay an on/off request req just commanded
Touched(req, S) ==
    IF req.op \in {"on", "off"} /\ S.status = 200
    THEN {p.id : p \in {q \in pulses : 10 * q.i = relayIndex(req.args[1])}}
    ELSE {}

\* the server handled request req and is left as S
Served(req, S) ==
    /\ store' = S.store
    /\ disk' = S.disk
    /\ sessions' = S.sessions
    /\ issued' = S.issued
    /\ dev' = S.dev
    /\ pulses' = S.pulses
    /\ resp' = [req |-> req, status |-> S.status, body |-> S.body,
                cookie |-> S.cookie]
    /\ trail' = [salts |-> trail.salts \cup {S.store.creds.saltHex},
                 loggedOut |-> IF req.op = "logout" /\ ValidSession(req.tok)
                               THEN trail.loggedOut \cup {req.tok}
                               ELSE trail.loggedOut,
                 touched |-> trail.touched \cup Touched(req, S),
                 cut |-> trail.cut \cup
                         {p.id : p \in {q \in pulses : q.i >= Len(S.dev.relays)}},
                 savedAt |-> IF req.op = "postConfig" /\ S.status = 200
                             THEN count.polls ELSE trail.savedAt]
    /\ UNCHANGED <<now, minRecRefresh, diskOk>>

Request(op, tok, args) == [op |-> op, tok |-> tok, args |-> args]

Login(username, password) ==
    /\ Served(Request("login", 0, <<username, password>>),
              authLogin(username, password))
    /\ UNCHANGED clientVars

Logout(tok) ==
    /\ Served(Request("logout", tok, <<>>), authLogout(tok))
    /\ UNCHANGED clientVars

ChangeCredentials(tok, oldPassword, newUsername, newPassword) ==
    /\ Served(Request("change", tok, <<oldPassword, newUsername, newPassword>>),
              authChange(tok, oldPassword, newUsername, newPassword))
    /\ UNCHANGED clientVars

GetConfig(tok) ==
    /\ Served(Request("getConfig", tok, <<>>), getConfig(tok))
    /\ UNCHANGED clientVars

\* GET /api/publicConfig of any HTTP client
GetPublicConfig ==
    /\ Served(Request("publicConfig", 0, <<>>), getPublicConfig)
    /\ UNCHANGED clientVars

PostConfig(tok, incoming) ==
    /\ Served(Request("postConfig", tok, <<incoming>>), postConfig(tok, incoming))
    /\ UNCHANGED clientVars

ResetConfig(tok) ==
    /\ Served(Request("reset", tok, <<>>), resetConfig(tok))
    /\ UNCHANGED clientVars

\* a relay request of any HTTP client
ApiRelay(n, action, ms) ==
    /\ Served(Request(action, 0, <<n, ms>>), relayRoute(n, action, ms))
    /\ UNCHANGED clientVars

\* the server handles POST /api/relay/:n/on|off|pulse of command c
ServerRelay(c) ==
    /\ c \in cmds
    /\ c.stage = "sent"
    /\ LET S == relayRoute(ToString(c.n), c.action, <<c.ms>>) IN
       /\ Served(Request(c.action, 0, <<ToString(c.n), <<c.ms>>>>), S)
       /\ cmds' = (cmds \ {c}) \cup
                  {[c EXCEPT !.stage = IF S.status = 200 THEN "ok" ELSE "bad"]}
    /\ UNCHANGED <<pc, state, dom, timers, fetches, count, hist>>

\* the setTimeout callback of a pulse, when its delay has elapsed
PulseExpire(p) ==
    /\ p \in pulses
    /\ now = p.due
    /\ dev' = [dev EXCEPT !.relays = SetAt(dev.relays, p.i, FALSE)]
    /\ pulses' = pulses \ {p}
    /\ trail' = [trail EXCEPT
                    !.touched = @ \ {p.id},
                    !.cut = (@ \cup {q.id : q \in {r \in pulses : r.i = p.i}})
                            \ {p.id}]
    /\ UNCHANGED <<store, disk, diskOk, sessions, issued, now, resp, minRecRefresh,
                   clientVars>>

\* the delay of the pulse due next elapses and its callback runs
PulseTimeout(p) ==
    /\ p \in pulses
    /\ \A q \in pulses : p.due <= q.due
    /\ now' = p.due
    /\ dev' = [dev EXCEPT !.relays = SetAt(dev.relays, p.i, FALSE)]
    /\ pulses' = pulses \ {p}
    /\ trail' = [trail EXCEPT
                    !.touched = @ \ {p.id},
                    !.cut = (@ \cup {q.id : q \in {r \in pulses : r.i = p.i}})
                            \ {p.id}]
    /\ UNCHANGED <<store, disk, diskOk, sessions, issued, resp, minRecRefresh,
                   clientVars>>

\* d ms pass, no further than horizon; a timeout fires when it is due
Advance(d, horizon) ==
    /\ d > 0
    /\ now + d <= horizon
    /\ \A p \in pulses : now + d <= p.due
    /\ now' = now + d
    /\ UNCHANGED <<store, disk, diskOk, sessions, issued, resp, trail, dev, pulses,
                   minRecRefresh, clientVars>>

\* the 250 ms simulation interval: maybe toggles one input, recomputes register1
SimTick(i) ==
    /\ i \in 0..Len(dev.din)
    /\ LET din == IF i = 0 THEN dev.din
                  ELSE [dev.din EXCEPT ![i] = ~dev.din[i]] IN
       dev' = [dev EXCEPT !.din = din, !.register1 = CountTrue(din)]
    /\ UNCHANGED <<store, pulses, minRecRefresh, authVars, clientVars>>


----------------------------------------------------------------------------
(* ui.js: polling control *)

\* Number(x) * 1000 for the hints of the model, in tenths of a millisecond;
\* fin is Number.isFinite. Number(undefined) and Number("abc") are NaN,
\* Number(null) is 0.
NumberTimes1000(x) ==
    CASE x = "1"      -> [fin |-> TRUE, v |-> 10000]
      [] x = "2"      -> [fin |-> TRUE, v |-> 20000]
      [] x = "0.1"    -> [fin |-> TRUE, v |-> 1000]
      [] x = "30"     -> [fin |-> TRUE, v |-> 300000]
      [] x = "1.5005" -> [fin |-> TRUE, v |-> 15005]
      [] x = "null"   -> [fin |-> TRUE, v |-> 0]
      [] OTHER        -> [fin |-> FALSE, v |-> 0]

\* Math.trunc of a number given in tenths
Trunc(v) == IF v >= 0 THEN v \div 10 ELSE -((-v) \div 10)

\* clamps from above only
clampPollMs_NoFloor(ms, st) ==
    IF ~ms.fin THEN st.pollMs
    ELSE Min(10000, Trunc(ms.v))

clampPollMs(ms, st) ==
    IF ~ms.fin THEN st.pollMs
    ELSE Max(250, Min(10000, Trunc(ms.v)))

\* restarts the interval on every hint, changed or not
maybeUpdatePoll_Always(s, st, tm, nextId) ==
    LET desiredMs == clampPollMs(NumberTimes1000(s.minRecRefresh), st) IN
    [st |-> [st EXCEPT !.pollMs = desiredMs, !.timerId = nextId],
     timers |-> {t \in tm : st.timerId = 0 \/ t.id # st.timerId}
                \cup {[id |-> nextId, fn |-> "refreshStatus", ms |-> desiredMs]},
     started |-> 1]

\* the client state and timer table after maybeUpdatePollFromCustomState(s):
\* [st, timers, started], started = 1 when a setInterval was made
maybeUpdatePollFromCustomState(s, st, tm, nextId) ==
    LET desiredMs == clampPollMs(NumberTimes1000(s.minRecRefresh), st) IN
    IF desiredMs = 0 \/ desiredMs = st.pollMs
    THEN [st |-> st, timers |-> tm, started |-> 0]
    ELSE [st |-> [st EXCEPT !.pollMs = desiredMs, !.timerId = nextId],
          timers |-> {t \in tm : st.timerId = 0 \/ t.id # st.timerId}
                     \cup {[id |-> nextId, fn |-> "refreshStatus", ms |-> desiredMs]},
          started |-> 1]

----------------------------------------------------------------------------
(* ui.js: formatting helpers *)

\* "value #Color" -> value
parseValueColor(x) == [value |-> x[1], color |-> x[2]]

\* HH:MM:SS of a millisecond count (the digits are not modelled)
formatUptime(ms) == IF ms = "ms" THEN "HH:MM:SS" ELSE "--:--:--"

----------------------------------------------------------------------------
(* ui.js: dynamic UI builder and DOM cache *)

\* the rows of the values panel: the known ids of the enabled values, in order
RECURSIVE ValueRows(_)
ValueRows(values) ==
    IF values = <<>> THEN <<>>
    ELSE LET v == Head(values) IN
         (IF v.enabled /\ v.id \in {"vin", "reg1", "ow1"} THEN <<v.id>> ELSE <<>>)
         \o ValueRows(Tail(values))

\* renders a slot for every point, enabled or not
buildIndexUi_ShowAll(cfg, d) ==
    LET relays == [k \in 1..Len(cfg.relays) |-> k]
        dis == [k \in 1..Len(cfg.dis) |-> k]
        rows == [k \in 1..Len(cfg.values) |-> cfg.values[k].id]
    IN [d EXCEPT
          !.pageTitle = IF cfg.pageTitle = "" THEN "Device" ELSE cfg.pageTitle,
          !.relayPanels = relays,
          !.relayBar = [n \in 1..Len(relays) |-> "Off"],
          !.btnDisabled = {},
          !.diRows = dis,
          !.diBar = [n \in 1..Len(dis) |-> "Off"],
          !.valueRows = rows,
          !.pill = [k \in 1..Len(rows) |-> "?"]]

\* numbers the panels 1, 2, ... as they are appended
buildIndexUi_CountsPanels(cfg, d) ==
    LET relays == [k \in 1..Len(SeqFilterIdx(cfg.relays, 1)) |-> k]
        dis == SeqFilterIdx(cfg.dis, 1)
        rows == ValueRows(cfg.values)
    IN [d EXCEPT
          !.pageTitle = IF cfg.pageTitle = "" THEN "Device" ELSE cfg.pageTitle,
          !.relayPanels = relays,
          !.relayBar = [n \in {relays[k] : k \in 1..Len(relays)} |-> "Off"],
          !.btnDisabled = {},
          !.diRows = dis,
          !.diBar = [n \in {dis[k] : k \in 1..Len(dis)} |-> "Off"],
          !.valueRows = rows,
          !.pill = [k \in 1..Len(rows) |-> "?"]]

\* the document after buildIndexUiFromConfig(cfg): #grid is emptied and refilled
buildIndexUiFromConfig(cfg, d) ==
    LET relays == SeqFilterIdx(cfg.relays, 1)
        dis == SeqFilterIdx(cfg.dis, 1)
        rows == ValueRows(cfg.values)
    IN [d EXCEPT
          !.pageTitle = IF cfg.pageTitle = "" THEN "Device" ELSE cfg.pageTitle,
          !.relayPanels = relays,
          !.relayBar = [n \in {relays[k] : k \in 1..Len(relays)} |-> "Off"],
          !.btnDisabled = {},
          !.diRows = dis,
          !.diBar = [n \in {dis[k] : k \in 1..Len(dis)} |-> "Off"],
          !.valueRows = rows,
          !.pill = [k \in 1..Len(rows) |-> "?"]]

\* $("#id") among the value pills: the first row with that id, 0 when none
FirstRow(d, id) ==
    IF \E k \in 1..Len(d.valueRows) : d.valueRows[k] = id
    THEN CHOOSE k \in 1..Len(d.valueRows) :
            /\ d.valueRows[k] = id
            /\ \A j \in 1..(k - 1) : d.valueRows[j] # id
    ELSE 0

\* state.els after cacheDom(): the bars are collected in document order
cacheDom(d) ==
    [conn |-> TRUE, refresh |-> TRUE, clock |-> TRUE, uptimeMs |-> TRUE,
     relayBars |-> d.relayPanels,
     diBars |-> d.diRows,
     vin |-> FirstRow(d, "vin"),
     reg1 |-> FirstRow(d, "reg1"),
     ow1 |-> FirstRow(d, "ow1")]

----------------------------------------------------------------------------
(* ui.js: rendering *)

\* s[`relay${k}`] and s[`digitalInput${k}`]: a missing key reads undefined
PayloadKey(list, k) == IF k \in DOMAIN list THEN list[k] ELSE "undefined"

\* the texts of the bars after the loops of renderCustomState: the bar at
\* position i of the cached list (0-based) gets payload key i + 1
RenderBars(bars, cached, list) ==
    [n \in DOMAIN bars |->
        IF \E k \in 1..Len(cached) : cached[k] = n
        THEN LET k == CHOOSE k \in 1..Len(cached) : cached[k] = n IN
             IF PayloadKey(list, k) = "1" THEN "On" ELSE "Off"
        ELSE bars[n]]

setPill(pill, k, text) == IF k = 0 THEN pill ELSE [pill EXCEPT ![k] = text]

\* renders the payload and leaves the reconnect button as it is
renderCustomState_LeavesButton(s, st, d) ==
    [d EXCEPT
        !.conn = "OK",
        !.uptimeMs = formatUptime(s.uptimeMs),
        !.relayBar = RenderBars(d.relayBar, st.els.relayBars, s.relay),
        !.diBar = RenderBars(d.diBar, st.els.diBars, s.digitalInput),
        !.pill = setPill(setPill(setPill(d.pill,
                    st.els.vin, parseValueColor(s.vin).value),
                    st.els.reg1, parseValueColor(s.register1).value),
                    st.els.ow1, parseValueColor(s.oneWire1).value)]

renderCustomState(s, st, d) ==
    [d EXCEPT
        !.conn = "OK",
        !.refreshDisabled = IF st.els.refresh THEN TRUE ELSE @,
        !.uptimeMs = formatUptime(s.uptimeMs),
        !.relayBar = RenderBars(d.relayBar, st.els.relayBars, s.relay),
        !.diBar = RenderBars(d.diBar, st.els.diBars, s.digitalInput),
        !.pill = setPill(setPill(setPill(d.pill,
                    st.els.vin, parseValueColor(s.vin).value),
                    st.els.reg1, parseValueColor(s.register1).value),
                    st.els.ow1, parseValueColor(s.oneWire1).value)]

\* also blanks the displayed I/O state
renderDisconnected_Clears(st, d) ==
    [d EXCEPT
        !.conn = "Disconnected",
        !.refreshDisabled = IF st.els.refresh THEN FALSE ELSE @,
        !.uptimeMs = "--:--:--",
        !.relayBar = [n \in DOMAIN @ |-> "Off"],
        !.diBar = [n \in DOMAIN @ |-> "Off"],
        !.pill = [k \in DOMAIN @ |-> "?"]]

renderDisconnected(st, d) ==
    [d EXCEPT
        !.conn = "Disconnected",
        !.refreshDisabled = IF st.els.refresh THEN FALSE ELSE @,
        !.uptimeMs = "--:--:--"]


----------------------------------------------------------------------------
(* Initial state: the server is up with some stored config and device state,
   the page index.html has just been loaded and main.js calls boot() *)

\* state.js
state0 ==
    [pollMs |-> 1000,
     timerId |-> 0,                \* null
     connected |-> FALSE,
     lastStatus |-> <<>>,          \* null, or <<payload>>
     els |-> [conn |-> FALSE, refresh |-> FALSE, clock |-> FALSE,
              uptimeMs |-> FALSE, relayBars |-> <<>>, diBars |-> <<>>,
              vin |-> 0, reg1 |-> 0, ow1 |-> 0],
     config |-> <<>>]              \* null, or <<cfg>>

\* the static part of index.html, with an empty #grid
dom0 ==
    [pageTitle |-> "", docTitle |-> "", conn |-> "", clock |-> "",
     uptimeMs |-> "", refreshDisabled |-> FALSE,
     relayPanels |-> <<>>, relayBar |-> <<>>, btnDisabled |-> {},
     diRows |-> <<>>, diBar |-> <<>>, valueRows |-> <<>>, pill |-> <<>>]

\* the browser side right after the page load
InitClient ==
    /\ pc = "boot"
    /\ state = state0
    /\ dom = dom0
    /\ timers = {}
    /\ fetches = {}
    /\ cmds = {}
    /\ count = [timers |-> 0, polls |-> 0, cmds |-> 0]
    /\ hist = [last |-> "none", lastOk |-> "none", repeated |-> FALSE,
               applied |-> 0, maxOk |-> 0]

\* every stored config of up to MaxRelays relays and MaxDis inputs
Configs ==
    { [pageTitle |-> "CASTLEROAD", relays |-> r, dis |-> d, values |-> v] :
        r \in PointLists(MaxRelays, "r", "Relay"),
        d \in PointLists(MaxDis, "d", "Digital Input"), v \in ValueLists }

\* a stored config with an enabled and a disabled relay and no input
HintConfig ==
    [pageTitle |-> "CASTLEROAD",
     relays |-> << Point("r1", "Relay 1", TRUE), Point("r2", "Relay 2", FALSE) >>,
     dis |-> << >>,
     values |-> << Point("vin", "VIN", TRUE) >>]

\* a stored config with an enabled and a disabled relay, an input and the
\* three sensors
PollConfig ==
    [pageTitle |-> "CASTLEROAD",
     relays |-> << Point("r1", "Relay 1", TRUE), Point("r2", "Relay 2", FALSE) >>,
     dis |-> << Point("d1", "Digital Input 1", TRUE) >>,
     values |-> << Point("vin", "VIN", TRUE),
                   Point("reg1", "Register 1", TRUE),
                   Point("ow1", "OneWire 1", TRUE) >>]

\* loadStore(): the default credentials, hashed under the first salt drawn,
\* with the stored config cfg
loadStore(cfg) == [ensureCredsHashed(defaultStore, 0) EXCEPT !.config = cfg]

\* no request handled yet
noResp == [req |-> [op |-> "none", tok |-> 0, args |-> <<>>],
           status |-> 0, body |-> <<>>, cookie |-> 0]

\* the store is on disk as loaded, there is no session, the clock starts
InitAuth ==
    /\ disk = store
    /\ diskOk = TRUE
    /\ sessions = << >>
    /\ issued = [salts |-> 1, sids |-> 0, timeouts |-> 0]
    /\ now = 0
    /\ resp = noResp
    /\ trail = [salts |-> {store.creds.saltHex}, loggedOut |-> {},
                touched |-> {}, cut |-> {}, savedAt |-> 0]

\* a freshly started server: ensureDevArrayLengths fills the arrays with false
InitServer(cfg) ==
    /\ store = loadStore(cfg)
    /\ InitAuth
    /\ dev = [relays |-> [i \in 1..Len(cfg.relays) |-> FALSE],
              din |-> [i \in 1..Len(cfg.dis) |-> FALSE],
              register1 |-> 0]
    /\ pulses = {}

\* the simulator as written: every snapshot carries minRecRefresh "1"
Init ==
    /\ InitServer(PollConfig)
    /\ minRecRefresh = "1"
    /\ InitClient

\* a device that sends any of the cadence hints
InitHints ==
    /\ InitServer(HintConfig)
    /\ minRecRefresh \in Hints
    /\ InitClient

\* the device states the page load is checked against: everything off, or
\* the odd relays and inputs on (relay1..relay4 = 1,0,1,0)
DevPatterns(n) ==
    { [i \in 1..n |-> FALSE], [i \in 1..n |-> i % 2 = 1] }

\* a server that has been running: any stored config; the hint is the
\* simulator's "1"
InitUi ==
    /\ \E cfg \in Configs : store = loadStore(cfg)
    /\ InitAuth
    /\ \E r \in DevPatterns(Len(store.config.relays)),
          d \in DevPatterns(Len(store.config.dis)) :
          dev = [relays |-> r, din |-> d, register1 |-> CountTrue(d)]
    /\ pulses = {}
    /\ minRecRefresh = "1"
    /\ InitClient

----------------------------------------------------------------------------
(* main.js: boot() *)

\* the listeners of wireEvents() are in place
Wired == pc \in {"bootPoll", "startTimer", "running"}

\* no continuation of the running task is pending: boot()'s continuation
\* after `await refreshStatus()` is a microtask and runs before any other task
TaskBoundary == pc # "startTimer"

NewPoll(k, origin, n) == [seq |-> count.polls + k, origin |-> origin, n |-> n]

\* getPublicConfig() answered: boot() runs up to `await refreshStatus()`.
\* wireEvents() caches the DOM, starts the clock and issues the first poll
\* without awaiting it; boot() then issues its own poll
BootConfigOk ==
    /\ pc = "boot"
    /\ count.polls + 2 <= MaxPolls
    /\ LET cfg == publicConfig
           built == [buildIndexUiFromConfig(cfg, dom) EXCEPT
                        !.docTitle = IF cfg.pageTitle = "" THEN "Device"
                                     ELSE cfg.pageTitle]
       IN /\ dom' = [built EXCEPT !.clock = "now"]
          /\ state' = [state EXCEPT !.config = <<cfg>>, !.els = cacheDom(built)]
    /\ timers' = timers \cup {[id |-> count.timers + 1, fn |-> "clock", ms |-> 1000]}
    /\ fetches' = fetches \cup {NewPoll(1, "wire", 0), NewPoll(2, "boot", 0)}
    /\ count' = [count EXCEPT !.timers = @ + 1, !.polls = @ + 2]
    /\ pc' = "bootPoll"
    /\ UNCHANGED <<serverVars, cmds, hist>>

\* a boot() that starts the polling loop although the config fetch failed
BootConfigFail_StillPolls ==
    /\ pc = "boot"
    /\ pc' = "failed"
    /\ state' = [state EXCEPT !.timerId = count.timers + 1]
    /\ timers' = timers \cup {[id |-> count.timers + 1, fn |-> "refreshStatus",
                               ms |-> state.pollMs]}
    /\ count' = [count EXCEPT !.timers = @ + 1]
    /\ UNCHANGED <<serverVars, dom, fetches, cmds, hist>>

\* getPublicConfig() failed: boot() rejects and the failure is logged
BootConfigFail ==
    /\ pc = "boot"
    /\ pc' = "failed"
    /\ UNCHANGED <<serverVars, state, dom, timers, fetches, cmds, count, hist>>

\* boot() after `await refreshStatus()`: start the polling loop
BootStartTimer ==
    /\ pc = "startTimer"
    /\ state' = [state EXCEPT !.timerId = count.timers + 1]
    /\ timers' = timers \cup {[id |-> count.timers + 1, fn |-> "refreshStatus",
                               ms |-> state.pollMs]}
    /\ count' = [count EXCEPT !.timers = @ + 1]
    /\ pc' = "running"
    /\ UNCHANGED <<serverVars, dom, fetches, cmds, hist>>

----------------------------------------------------------------------------
(* ui.js: refreshStatus() *)

\* what follows the completion of poll f in the same task: boot() moves on,
\* handleRelayAction() re-enables its buttons in `finally`
AfterPoll(f, d) ==
    /\ pc' = IF f.origin = "boot" THEN "startTimer" ELSE pc
    /\ dom' = IF f.origin = "cmd"
              THEN [d EXCEPT !.btnDisabled = @ \ {f.n}] ELSE d

\* the try block after the fetch resolved with s, before the rendering
onPollPayload(s, st) == [st EXCEPT !.lastStatus = <<s>>, !.connected = TRUE]

\* the catch block forgetting the last snapshot
onPollError_Clears(st) == [st EXCEPT !.connected = FALSE, !.lastStatus = <<>>]

\* the catch block backing off: the interval is stopped and the period doubled
onPollError_Backoff(st) ==
    [st EXCEPT !.connected = FALSE, !.timerId = 0,
               !.pollMs = Min(10000, 2 * @)]

\* the catch block, before the rendering
onPollError(st) == [st EXCEPT !.connected = FALSE]

\* the fetch of poll f answered 2xx with the device's snapshot
PollOk(f) ==
    /\ f \in fetches
    /\ TaskBoundary
    /\ LET s == customState
           st1 == onPollPayload(s, state)
           upd == maybeUpdatePollFromCustomState(s, st1, timers, count.timers + 1)
       IN /\ state' = upd.st
          /\ timers' = upd.timers
          /\ count' = [count EXCEPT !.timers = @ + upd.started]
          /\ AfterPoll(f, renderCustomState(s, upd.st, dom))
          /\ hist' = [last |-> "ok",
                      lastOk |-> s.minRecRefresh,
                      repeated |-> (hist.lastOk = s.minRecRefresh),
                      applied |-> f.seq,
                      maxOk |-> Max(hist.maxOk, f.seq)]
    /\ fetches' = fetches \ {f}
    /\ UNCHANGED <<serverVars, cmds>>

\* the fetch of poll f failed: kind is "transport" (fetch rejects) or "http"
\* (request() throws on a non-2xx response)
PollFail(f, kind) ==
    /\ f \in fetches
    /\ TaskBoundary
    /\ kind \in {"transport", "http"}
    /\ state' = onPollError(state)
    /\ AfterPoll(f, renderDisconnected(state', dom))
    /\ hist' = [hist EXCEPT !.last = kind]
    /\ fetches' = fetches \ {f}
    /\ UNCHANGED <<serverVars, timers, cmds, count>>

\* a polling interval fires: refreshStatus() caches the DOM and issues a poll
Tick(t) ==
    /\ t \in timers
    /\ t.fn = "refreshStatus"
    /\ TaskBoundary
    /\ count.polls < MaxPolls
    /\ state' = [state EXCEPT !.els = cacheDom(dom)]
    /\ fetches' = fetches \cup {NewPoll(1, "tick", 0)}
    /\ count' = [count EXCEPT !.polls = @ + 1]
    /\ UNCHANGED <<serverVars, pc, dom, timers, cmds, hist>>

\* the clock interval of startClock() fires
ClockTick(t) ==
    /\ t \in timers
    /\ t.fn = "clock"
    /\ TaskBoundary
    /\ dom' = [dom EXCEPT !.clock = "now"]
    /\ UNCHANGED <<serverVars, pc, state, timers, fetches, cmds, count, hist>>

----------------------------------------------------------------------------
(* ui.js: event handlers wired by wireEvents() *)

\* click on #refreshBtn (a disabled button dispatches no click)
ClickReconnect ==
    /\ Wired
    /\ TaskBoundary
    /\ state.els.refresh
    /\ ~dom.refreshDisabled
    /\ IF state.connected
       THEN UNCHANGED <<state, dom, fetches, count>>
       ELSE /\ count.polls < MaxPolls
            /\ dom' = [dom EXCEPT !.refreshDisabled = TRUE]
            /\ state' = [state EXCEPT !.els = cacheDom(dom)]
            /\ fetches' = fetches \cup {NewPoll(1, "reconnect", 0)}
            /\ count' = [count EXCEPT !.polls = @ + 1]
    /\ UNCHANGED <<serverVars, pc, timers, cmds, hist>>

\* a click that disables the buttons of every relay on the page
ClickRelayWithin_LocksAll(n, action, limit) ==
    /\ Wired
    /\ TaskBoundary
    /\ \E k \in 1..Len(dom.relayPanels) : dom.relayPanels[k] = n
    /\ n \notin dom.btnDisabled
    /\ action \in {"on", "off", "pulse"}
    /\ count.cmds < limit
    /\ dom' = [dom EXCEPT !.btnDisabled =
                    {dom.relayPanels[k] : k \in 1..Len(dom.relayPanels)}]
    /\ cmds' = cmds \cup {[id |-> count.cmds + 1, n |-> n, action |-> action,
                           ms |-> IF action = "pulse" THEN 500 ELSE 0,
                           stage |-> "sent"]}
    /\ count' = [count EXCEPT !.cmds = @ + 1]
    /\ UNCHANGED <<serverVars, pc, state, timers, fetches, hist>>

\* click on the button data-relay=n data-action=action: handleRelayAction
\* disables the buttons of relay n and sends the command; limit is the
\* number of commands the model lets the page send
ClickRelayWithin(n, action, limit) ==
    /\ Wired
    /\ TaskBoundary
    /\ \E k \in 1..Len(dom.relayPanels) : dom.relayPanels[k] = n
    /\ n \notin dom.btnDisabled
    /\ action \in {"on", "off", "pulse"}
    /\ count.cmds < limit
    /\ dom' = [dom EXCEPT !.btnDisabled = @ \cup {n}]
    /\ cmds' = cmds \cup {[id |-> count.cmds + 1, n |-> n, action |-> action,
                           ms |-> IF action = "pulse" THEN 500 ELSE 0,
                           stage |-> "sent"]}
    /\ count' = [count EXCEPT !.cmds = @ + 1]
    /\ UNCHANGED <<serverVars, pc, state, timers, fetches, hist>>

ClickRelay(n, action) == ClickRelayWithin(n, action, MaxCmds)

\* the answer to command c arrives: on 2xx handleRelayAction goes on to
\* refreshStatus(); on 400 request() throws, `finally` re-enables the buttons
CmdReply(c) ==
    /\ c \in cmds
    /\ TaskBoundary
    /\ c.stage \in {"ok", "bad"}
    /\ cmds' = cmds \ {c}
    /\ IF c.stage = "ok"
       THEN /\ count.polls < MaxPolls
            /\ state' = [state EXCEPT !.els = cacheDom(dom)]
            /\ fetches' = fetches \cup {NewPoll(1, "cmd", c.n)}
            /\ count' = [count EXCEPT !.polls = @ + 1]
            /\ UNCHANGED dom
       ELSE /\ dom' = [dom EXCEPT !.btnDisabled = @ \ {c.n}]
            /\ UNCHANGED <<state, fetches, count>>
    /\ UNCHANGED <<serverVars, pc, timers, hist>>

\* a handler whose failure stops the polling interval
CmdFail_StopsPolling(c) ==
    /\ c \in cmds
    /\ TaskBoundary
    /\ cmds' = cmds \ {c}
    /\ dom' = [dom EXCEPT !.btnDisabled = @ \ {c.n}]
    /\ state' = [state EXCEPT !.timerId = 0]
    /\ timers' = {t \in timers : t.fn # "refreshStatus"}
    /\ UNCHANGED <<serverVars, pc, fetches, count, hist>>

\* the fetch of command c rejects (before or after the server handled it)
CmdFail(c) ==
    /\ c \in cmds
    /\ TaskBoundary
    /\ cmds' = cmds \ {c}
    /\ dom' = [dom EXCEPT !.btnDisabled = @ \ {c.n}]
    /\ UNCHANGED <<serverVars, pc, state, timers, fetches, count, hist>>

----------------------------------------------------------------------------
(* Specification *)

Next ==
    \/ BootConfigOk
    \/ BootConfigFail
    \/ BootStartTimer
    \/ \E f \in fetches : PollOk(f)
    \/ \E f \in fetches, kind \in {"transport", "http"} : PollFail(f, kind)
    \/ \E t \in timers : Tick(t)
    \/ \E t \in timers : ClockTick(t)
    \/ ClickReconnect
    \/ \E n \in 1..Len(store.config.relays), action \in {"on", "off", "pulse"} : ClickRelay(n, action)
    \/ \E c \in cmds : ServerRelay(c)
    \/ \E c \in cmds : CmdReply(c)
    \/ \E c \in cmds : CmdFail(c)
    \/ \E p \in pulses : PulseTimeout(p)
    \/ \E i \in 0..Len(dev.din) : SimTick(i)

Spec == Init /\ [][Next]_vars

SpecHints == InitHints /\ [][Next]_vars

\* the page load alone, for every stored config: boot() and its two polls
NextUi ==
    \/ BootConfigOk
    \/ BootConfigFail
    \/ BootStartTimer
    \/ \E f \in fetches : PollOk(f)
    \/ \E f \in fetches, kind \in {"transport", "http"} : PollFail(f, kind)

SpecUi == InitUi /\ [][NextUi]_vars

\* usernames of 64 and of 65 characters
Name64 == "aaaaaaaaaaaaaaaaaaaaaaaaaaaaaaaaaaaaaaaaaaaaaaaaaaaaaaaaaaaaaaaa"
Name65 == Name64 \o "b"

\* what the requests of the model carry
Usernames == { <<>>, <<"admin">>, <<"root">>, <<Name64>>, <<Name65>> }
Passwords == { <<"">>, <<"admin">>, <<"hunter2">> }
NewUsernames == { <<>>, <<"">>, <<"root">>, <<Name65>> }
NewPasswords == { <<>>, <<"">>, <<"abc">>, <<"admin">>, <<"hunter2">> }
Tokens == 0..(MaxSessions + 1)      \* 0: no cookie; MaxSessions + 1: forged

\* POST /api/config bodies: no config, and a config with defaults to fill in
Incoming ==
    { <<>>,
      << [pageTitle |-> <<"">>,
          relays |-> << << Entry(<<>>, <<>>, <<>>),
                           Entry(<<"r2">>, <<"Pump">>, <<FALSE>>) >> >>,
          dis |-> <<>>,
          values |-> << << Entry(<<>>, <<"VIN">>, <<TRUE>>) >> >>] >> }

\* a freshly started server with the default store
InitDefault ==
    /\ InitServer(defaultStore.config)
    /\ minRecRefresh = "1"
    /\ InitClient

\* sessions over time: logins, logouts and the protected operations under
\* every token, with the clock stepping by 1 ms and by a session lifetime
\* through the first MaxLate ms of each lifetime
NextSessions ==
    \/ issued.sids < MaxSessions /\ Login(<<"admin">>, <<"admin">>)
    \/ \E tok \in Tokens : Logout(tok)
    \/ \E tok \in Tokens :
            issued.salts < MaxSalts
            /\ ChangeCredentials(tok, <<"admin">>, <<"root">>, <<"hunter2">>)
    \/ \E tok \in Tokens : GetConfig(tok)
    \/ \E tok \in Tokens, c \in Incoming : c # <<>> /\ PostConfig(tok, c)
    \/ \E tok \in Tokens : ResetConfig(tok)
    \/ \E d \in {1, SESSION_TTL_MS} :
            /\ (now + d) % SESSION_TTL_MS <= MaxLate
            /\ Advance(d, SESSION_TTL_MS + MaxLate)

SpecSessions == InitDefault /\ [][NextSessions]_vars

\* credentials: every login of the model and every credential change of the
\* model under the first token issued
NextCreds ==
    \/ \E u \in Usernames, p \in Passwords :
            issued.sids < MaxSessions /\ Login(u, p)
    \/ \E old \in Passwords, nu \in NewUsernames, np \in NewPasswords :
            issued.salts < MaxSalts /\ ChangeCredentials(1, old, nu, np)
    \/ \E tok \in 0..1 : Logout(tok)

SpecCreds == InitDefault /\ [][NextCreds]_vars

\* pulse widths sent: 5 ms and 50000 ms
Widths == { <<5>>, <<50000>> }

\* the device under relay requests (on, off and both pulse widths for
\* relay 1, the short pulse for relay 3), pulse timeouts, config writes and
\* resets, with the clock stepping by 10 ms MaxTicks times and to the next
\* timeout
NextDevice ==
    \/ issued.sids < 1 /\ Login(<<"admin">>, <<"admin">>)
    \/ \E c \in Incoming : c # <<>> /\ PostConfig(1, c)
    \/ ResetConfig(1)
    \/ \E action \in {"on", "off"} : ApiRelay("1", action, <<>>)
    \/ \E n \in {"1", "3"}, ms \in Widths :
            /\ issued.timeouts < MaxPulses
            /\ n = "3" => ms = <<5>>
            /\ ApiRelay(n, "pulse", ms)
    \/ \E p \in pulses : PulseExpire(p)
    \/ Advance(10, 10 * MaxTicks)
    \/ \E p \in pulses : Advance(p.due - now, p.due)

SpecDevice == InitDefault /\ [][NextDevice]_vars

\* the path segments :n sent to the relay routes
Segments == { "1", "3", "0", "9", "1.5", "abc" }

\* the relay routes under every path segment of the model, between config
\* writes and resets, each pulse timeout firing in its turn
NextRelays ==
    \/ issued.sids < 1 /\ Login(<<"admin">>, <<"admin">>)
    \/ \E c \in Incoming : c # <<>> /\ PostConfig(1, c)
    \/ ResetConfig(1)
    \/ \E n \in Segments, action \in {"on", "off"} : ApiRelay(n, action, <<>>)
    \/ \E n \in Segments :
            issued.timeouts < MaxPulses /\ ApiRelay(n, "pulse", <<5>>)
    \/ \E p \in pulses : PulseTimeout(p)

SpecRelays == InitDefault /\ [][NextRelays]_vars

\* a name and a title of 41 characters
Name41 == "Relay with a name of forty-one characters"
Title41 == "A page title that is 41 characters long.."

\* POST /api/config bodies that are malformed in part: no config at all; a
\* relay list that is no array, a null input, an input and a title with 41
\* characters, a value without name; relays carrying ids out of order, with
\* credential fields slipped into the config and into an entry
Bodies ==
    { <<>>,
      << [pageTitle |-> <<Title41>>,
          relays |-> <<>>,
          dis |-> << << <<>>, Entry(<<"d9">>, <<Name41>>, <<FALSE>>) >> >>,
          values |-> << << Entry(<<"vin">>, <<"">>, <<>>) >> >>] >>,
      << [pageTitle |-> <<>>,
          relays |-> << << Entry(<<"r2">>, <<"Pump">>, <<TRUE>>),
                           << [id |-> <<"r1">>, name |-> <<"Fan">>,
                               enabled |-> <<TRUE>>, hashHex |-> <<"00">>] >> >> >>,
          dis |-> << <<>> >>,
          values |-> <<>>,
          creds |-> << [username |-> "eve", saltHex |-> "00"] >>] >> }

\* config writes with the bodies above and those of Incoming, resets,
\* credential changes and reads of the public and the protected config
NextConfig ==
    \/ issued.sids < 1 /\ Login(<<"admin">>, <<"admin">>)
    \/ \E tok \in 0..1, b \in Bodies \cup Incoming : PostConfig(tok, b)
    \/ \E tok \in 0..1 : ResetConfig(tok)
    \/ \E old \in {<<"admin">>, <<"hunter2">>}, nu \in {<<>>, <<"root">>} :
            /\ issued.salts < MaxSalts
            /\ ChangeCredentials(1, old, nu, <<"hunter2">>)
    \/ GetPublicConfig
    \/ \E tok \in 0..1 : GetConfig(tok)

SpecConfig == InitDefault /\ [][NextConfig]_vars

\* the volume of the store file fills up or fails, and is repaired
DiskFails ==
    /\ diskOk
    /\ diskOk' = FALSE
    /\ UNCHANGED <<store, disk, sessions, issued, now, resp, trail, dev, pulses,
                   minRecRefresh, clientVars>>

DiskRecovers ==
    /\ ~diskOk
    /\ diskOk' = TRUE
    /\ UNCHANGED <<store, disk, sessions, issued, now, resp, trail, dev, pulses,
                   minRecRefresh, clientVars>>

\* config writes, resets and credential changes of two sessions while the
\* disk fails and recovers, and reads of the config
NextDisk ==
    \/ issued.sids < MaxSessions /\ Login(<<"admin">>, <<"admin">>)
    \/ DiskFails
    \/ DiskRecovers
    \/ \E tok \in 1..2, c \in Incoming : c # <<>> /\ PostConfig(tok, c)
    \/ \E tok \in 1..2 : ResetConfig(tok)
    \/ \E old \in {<<"admin">>, <<"hunter2">>}, nu \in {<<>>, <<"root">>},
          np \in {<<>>, <<"hunter2">>} :
            /\ issued.salts < MaxSalts
            /\ ChangeCredentials(1, old, nu, np)
    \/ \E tok \in 1..2 : GetConfig(tok)
    \/ GetPublicConfig

SpecDisk == InitDefault /\ [][NextDisk]_vars

\* the dashboard of a freshly started server, open while the setup page of
\* session saves a config of two relays: the page load, polls and interval
\* ticks, clicks on the "on" buttons of relays 1 and 3 with their commands
\* answered or lost, logins with the right and a wrong password, and the
\* config save
NextDash ==
    \/ BootConfigOk
    \/ BootConfigFail
    \/ BootStartTimer
    \/ \E f \in fetches : PollOk(f)
    \/ \E f \in fetches : PollFail(f, "transport")
    \/ \E t \in timers : Tick(t)
    \/ \E n \in {1, 3} : ClickRelayWithin(n, "on", MaxDashCmds)
    \/ \E c \in cmds : ServerRelay(c)
    \/ \E c \in cmds : CmdReply(c)
    \/ \E c \in cmds : CmdFail(c)
    \/ \E p \in {<<"admin">>, <<"hunter2">>} :
            issued.sids < 1 /\ Login(<<"admin">>, p)
    \/ \E c \in Incoming : c # <<>> /\ PostConfig(1, c)

SpecDash == InitDefault /\ [][NextDash]_vars

\* the device while the disk fails and recovers: relay 3 and input 3
\* switched, config writes of two relays and no input, and resets
NextResize ==
    \/ issued.sids < 1 /\ Login(<<"admin">>, <<"admin">>)
    \/ DiskFails
    \/ DiskRecovers
    \/ \E action \in {"on", "off"} : ApiRelay("3", action, <<>>)
    \/ SimTick(3)
    \/ \E c \in Incoming : c # <<>> /\ PostConfig(1, c)
    \/ ResetConfig(1)

SpecResize == InitDefault /\ [][NextResize]_vars

\* the device recommends another cadence from now on
HintChanges(h) ==
    /\ h # minRecRefresh
    /\ minRecRefresh' = h
    /\ UNCHANGED <<store, dev, pulses, authVars, clientVars>>

\* the page load and the polling loop against a device whose cadence hint
\* changes between 1 and 2 seconds
NextCadence ==
    \/ BootConfigOk
    \/ BootStartTimer
    \/ \E f \in fetches : PollOk(f)
    \/ \E f \in fetches : PollFail(f, "transport")
    \/ \E t \in timers : Tick(t)
    \/ \E h \in {"1", "2"} : HintChanges(h)

SpecCadence == InitHints /\ [][NextCadence]_vars

\* the body that carries the config cfg as JSON.stringify writes it
AsBody(cfg) ==
    LET list(f) == << [i \in 1..Len(cfg[f]) |->
                        Entry(<<cfg[f][i].id>>, <<cfg[f][i].name>>,
                              <<cfg[f][i].enabled>>)] >>
    IN << [pageTitle |-> <<cfg.pageTitle>>, relays |-> list("relays"),
           dis |-> list("dis"), values |-> list("values")] >>

\* bodies whose title, id and name are the empty array
ArrayBodies ==
    { << [pageTitle |-> <<EmptyArray>>,
          relays |-> << << Entry(<<EmptyArray>>, <<"Pump">>, <<TRUE>>),
                           Entry(<<"r2">>, <<EmptyArray>>, <<FALSE>>) >> >>,
          dis |-> << <<>> >>,
          values |-> <<>>] >> }

\* the setup page of a logged-in session: saves of the bodies of the model,
\* and the stored config read and saved back as it is
NextNormalize ==
    \/ issued.sids < 1 /\ Login(<<"admin">>, <<"admin">>)
    \/ \E b \in Bodies \cup Incoming \cup ArrayBodies : PostConfig(1, b)
    \/ PostConfig(1, AsBody(store.config))
    \/ ResetConfig(1)
    \/ GetConfig(1)
    \/ GetPublicConfig
    \/ \E n \in {"1", "2"}, op \in {"on", "off"} : ApiRelay(n, op, <<>>)

SpecNormalize == InitDefault /\ [][NextNormalize]_vars

\* relay lists with disabled relays before, between and after the enabled
PanelRelays ==
    { << Point("r1", "Relay 1", FALSE), Point("r2", "Relay 2", TRUE),
         Point("r3", "Relay 3", FALSE), Point("r4", "Relay 4", TRUE) >>,
      << Point("r1", "Relay 1", TRUE), Point("r2", "Relay 2", TRUE),
         Point("r3", "Relay 3", FALSE) >>,
      << Point("r1", "Relay 1", FALSE), Point("r2", "Relay 2", FALSE),
         Point("r3", "Relay 3", TRUE) >> }

\* a server that has been running with one of these relay lists stored
InitPanels ==
    /\ \E r \in PanelRelays :
          store = loadStore([pageTitle |-> "CASTLEROAD", relays |-> r,
                             dis |-> << >>, values |-> << >>])
    /\ InitAuth
    /\ dev = [relays |-> [i \in 1..Len(store.config.relays) |-> FALSE],
              din |-> << >>, register1 |-> 0]
    /\ pulses = {}
    /\ minRecRefresh = "1"
    /\ InitClient

\* the page load and clicks on every button of every panel, the commands
\* handled by the server and answered or lost
NextPanels ==
    \/ BootConfigOk
    \/ BootStartTimer
    \/ \E f \in fetches : PollOk(f)
    \/ \E n \in 1..4, action \in {"on", "off", "pulse"} : ClickRelay(n, action)
    \/ \E c \in cmds : ServerRelay(c)
    \/ \E c \in cmds : CmdReply(c)
    \/ \E c \in cmds : CmdFail(c)

SpecPanels == InitPanels /\ [][NextPanels]_vars


----------------------------------------------------------------------------
(* Properties *)

\* a poll completed in this step (only PollOk and PollFail take a poll out)
PollDone == Cardinality(fetches') < Cardinality(fetches)
PollSucceeded == PollDone /\ hist'.last = "ok"
PollFailed == PollDone /\ hist'.last \in {"transport", "http"}

\* the active polling intervals
PollTimers == {t \in timers : t.fn = "refreshStatus"}

OnOff(flag) == IF flag = "1" THEN "On" ELSE "Off"

\* C1: after the UI is built and a poll succeeded, every visible relay slot
\* and every visible digital-input slot shows the snapshot state of its own
\* 1-based protocol index, whatever the enabled flags are
C1_SlotShowsOwnIndex ==
    (hist.last = "ok") =>
        /\ \A n \in DOMAIN dom.relayBar :
              dom.relayBar[n] = OnOff(state.lastStatus[1].relay[n])
        /\ \A n \in DOMAIN dom.diBar :
              dom.diBar[n] = OnOff(state.lastStatus[1].digitalInput[n])

\* C2: at most one snapshot fetch is in flight at any time
C2_OneFetchInFlight == Cardinality(fetches) <= 1

\* C3: at most one polling interval is active, and it is the one recorded
\* in state.timerId
C3_OnePollTimer ==
    /\ Cardinality(PollTimers) <= 1
    /\ \A t \in PollTimers : t.id = state.timerId

\* C4: state.lastStatus comes from the most recently issued poll among those
\* that have succeeded: an earlier-issued poll never overwrites a later one
C4_AppliedInIssueOrder == hist.applied = hist.maxOk


\* the interval ui.js is meant to end with for each hint of the model
ExpectedPollMs(hint) ==
    CASE hint = "1"      -> 1000
      [] hint = "2"      -> 2000
      [] hint = "0.1"    -> 250
      [] hint = "30"     -> 10000
      [] hint = "1.5005" -> 1500
      [] hint = "null"   -> 250      \* Number(null) is the finite number 0
      [] OTHER           -> 0        \* not a finite number

C6_AdaptIdempotent ==
    [][(PollSucceeded /\ hist.lastOk = hist'.lastOk) =>
            (state'.timerId = state.timerId /\ timers' = timers)]_vars

\* two successful polls with hint "2" in a row, the first of which restarted
C6_Witness ==
    /\ hist.repeated
    /\ hist.last = "ok"
    /\ hist.lastOk = "2"
    /\ state.pollMs = 2000
    /\ \E t \in PollTimers : t.id = state.timerId /\ t.ms = 2000

\* C7: a failed poll sets connected = false and leaves lastStatus as it was;
\* a successful poll sets connected = true and replaces lastStatus with the
\* payload just read from the device
C7_FailureKeepsSnapshot ==
    [][/\ PollFailed =>
            (~state'.connected /\ state'.lastStatus = state.lastStatus)
       /\ PollSucceeded =>
            /\ state'.connected
            /\ Len(state'.lastStatus) = 1
            /\ \A i \in 1..Len(dev.relays) :
                  state'.lastStatus[1].relay[i] = (IF dev.relays[i] THEN "1" ELSE "0")
            /\ \A i \in 1..Len(dev.din) :
                  state'.lastStatus[1].digitalInput[i] = (IF dev.din[i] THEN "1" ELSE "0")
      ]_vars

\* a failure after a success: disconnected, the snapshot still there
C7_Witness ==
    /\ hist.last \in {"transport", "http"}
    /\ ~state.connected
    /\ state.lastStatus # <<>>

\* C8: a failed poll, transport or non-2xx, leaves pollMs, timerId and the
\* running timers unchanged, and the failure does not escape refreshStatus
\* (boot() goes on to start the polling loop)
C8_FailureKeepsCadence ==
    [][PollFailed =>
            /\ state'.pollMs = state.pollMs
            /\ state'.timerId = state.timerId
            /\ timers' = timers
            /\ pc' \in {pc, "startTimer"}]_vars

\* a non-2xx failure with the polling loop running at an adapted period
C8_Witness ==
    /\ hist.last = "http"
    /\ state.timerId # 0
    /\ state.pollMs = 2000
    /\ \E t \in PollTimers : t.id = state.timerId /\ t.ms = state.pollMs

\* C9: rendering a poll failure leaves every relay bar, digital-input bar
\* and sensor value as last rendered; only the connection indicator, the
\* reconnect button and the uptime display may change
C9_FailureKeepsDisplay ==
    [][PollFailed =>
            /\ dom'.relayBar = dom.relayBar
            /\ dom'.diBar = dom.diBar
            /\ dom'.pill = dom.pill
            /\ dom'.relayPanels = dom.relayPanels
            /\ dom'.diRows = dom.diRows
            /\ dom'.valueRows = dom.valueRows
            /\ dom'.pageTitle = dom.pageTitle
            /\ dom'.clock = dom.clock]_vars

\* disconnected, with an On relay bar, an On input bar and sensor values shown
C9_Witness ==
    /\ hist.last \in {"transport", "http"}
    /\ dom.conn = "Disconnected"
    /\ dom.uptimeMs = "--:--:--"
    /\ ~dom.refreshDisabled
    /\ \E n \in DOMAIN dom.relayBar : dom.relayBar[n] = "On"
    /\ \E n \in DOMAIN dom.diBar : dom.diBar[n] = "On"
    /\ \E k \in DOMAIN dom.pill : dom.pill[k] = "1"

\* the strictly increasing maps from 1..n into 1..m
Increasing(n, m) ==
    {f \in [1..n -> 1..m] : \A a, b \in 1..n : a < b => f[a] < f[b]}

\* slots is exactly the list of the positions of points that are enabled
SlotsOfEnabled(slots, points) ==
    /\ \A k \in 1..Len(slots) : slots[k] \in 1..Len(points)
    /\ \A a, b \in 1..Len(slots) : a < b => slots[a] < slots[b]
    /\ \A i \in 1..Len(points) :
          points[i].enabled <=> \E k \in 1..Len(slots) : slots[k] = i

\* C10: the built UI has exactly one slot per enabled relay, per enabled
\* digital input and per enabled known sensor, none for the others, in
\* configuration order, each relay and input slot bearing its protocol index
C10_OneSlotPerEnabledPoint ==
    Wired =>
        LET cfg == state.config[1]
            shown == {i \in 1..Len(cfg.values) :
                        cfg.values[i].enabled
                        /\ cfg.values[i].id \in {"vin", "reg1", "ow1"}}
        IN /\ SlotsOfEnabled(dom.relayPanels, cfg.relays)
           /\ DOMAIN dom.relayBar = {i \in 1..Len(cfg.relays) : cfg.relays[i].enabled}
           /\ SlotsOfEnabled(dom.diRows, cfg.dis)
           /\ DOMAIN dom.diBar = {i \in 1..Len(cfg.dis) : cfg.dis[i].enabled}
           /\ Len(dom.pill) = Len(dom.valueRows)
           /\ \E f \in Increasing(Len(dom.valueRows), Len(cfg.values)) :
                 /\ {f[k] : k \in 1..Len(dom.valueRows)} = shown
                 /\ \A k \in 1..Len(dom.valueRows) :
                       dom.valueRows[k] = cfg.values[f[k]].id

\* 4 relays with relay 2 disabled: exactly the panels 1, 3, 4
C10_Witness ==
    /\ Wired
    /\ Len(state.config[1].relays) = 4
    /\ \A i \in 1..4 : state.config[1].relays[i].enabled <=> (i # 2)
    /\ dom.relayPanels = <<1, 3, 4>>
    /\ dom.valueRows = <<"ow1">>

----------------------------------------------------------------------------
(* Properties of the server *)

\* this step is the server handling the request recorded in resp'
Serving ==
    LET r == resp'.req IN
    CASE r.op = "login" -> Login(r.args[1], r.args[2])
      [] r.op = "logout" -> Logout(r.tok)
      [] r.op = "change" -> ChangeCredentials(r.tok, r.args[1], r.args[2], r.args[3])
      [] r.op = "getConfig" -> GetConfig(r.tok)
      [] r.op = "publicConfig" -> GetPublicConfig
      [] r.op = "postConfig" -> PostConfig(r.tok, r.args[1])
      [] r.op = "reset" -> ResetConfig(r.tok)
      [] r.op \in {"on", "off", "pulse"} -> ApiRelay(r.args[1], r.op, r.args[2])
      [] OTHER -> FALSE

ProtectedOps == {"change", "getConfig", "postConfig", "reset"}

\* this step handles a protected operation under the cookie sid=tok
Protected(tok) ==
    resp'.req.op \in ProtectedOps /\ resp'.req.tok = tok /\ Serving

\* this step handles a logout under the cookie sid=tok
LoggingOut(tok) ==
    resp'.req.op = "logout" /\ resp'.req.tok = tok /\ Serving

\* the response written in this step is 401 auth_required
AuthRequired == resp'.status = 401 /\ resp'.body.error = "auth_required"

\* C11 as stated: a protected operation called without a valid session
\* answers 401 auth_required and leaves credentials, config, device arrays
\* and the session store unchanged
C11_Unauthenticated ==
    [][\A tok \in Tokens : (Protected(tok) /\ ~ValidSession(tok)) =>
            /\ AuthRequired
            /\ store' = store
            /\ disk' = disk
            /\ dev' = dev
            /\ sessions' = sessions]_vars

\* C11: a protected operation called without a valid session answers 401
\* auth_required and leaves credentials, config and device arrays unchanged;
\* the session store is unchanged too, except that the session the request
\* presents, when it has expired, is removed from it
C11_UnauthenticatedLazy ==
    [][\A tok \in Tokens : (Protected(tok) /\ ~ValidSession(tok)) =>
            /\ AuthRequired
            /\ store' = store
            /\ disk' = disk
            /\ dev' = dev
            /\ sessions' = IF tok \in DOMAIN sessions
                            THEN [sid \in DOMAIN sessions \ {tok} |-> sessions[sid]]
                            ELSE sessions]_vars

\* a config write under an expired session was refused and the session removed
C11_Witness ==
    /\ resp.req.op = "postConfig"
    /\ resp.status = 401
    /\ resp.req.tok \in 1..issued.sids
    /\ resp.req.tok \notin DOMAIN sessions
    /\ resp.req.tok \notin trail.loggedOut
    /\ store.config = defaultStore.config

\* C12: once logout has been handled for a valid session, its token is in
\* no later state a session and every protected operation presenting it is
\* answered 401 auth_required
C12_LoggedOutForGood ==
    /\ [](\A sid \in trail.loggedOut : sid \notin DOMAIN sessions)
    /\ [][\A tok \in trail.loggedOut : Protected(tok) => AuthRequired]_vars

\* a protected operation refused for a token logged out before its expiry
C12_Witness ==
    /\ resp.req.op \in ProtectedOps
    /\ resp.req.tok \in trail.loggedOut
    /\ resp.status = 401
    /\ now < SESSION_TTL_MS

\* C13: a session's expiresAt is the time of its login + 8 hours and never
\* changes; a protected operation is accepted exactly when its token is a
\* session and now is not past expiresAt; an access (protected operation or
\* logout) presenting an expired session removes it, and no other step
\* removes an expired session
C13_FixedLifetime ==
    [][/\ \A sid \in DOMAIN sessions \cap DOMAIN sessions' :
              sessions'[sid].expiresAt = sessions[sid].expiresAt
       /\ \A sid \in DOMAIN sessions' \ DOMAIN sessions :
              sessions'[sid].expiresAt = now + 8 * 60 * 60 * 1000
       /\ \A tok \in Tokens :
              /\ Protected(tok) =>
                    (~AuthRequired <=>
                        (tok \in DOMAIN sessions /\ ~(now > sessions[tok].expiresAt)))
              /\ (/\ tok \in DOMAIN sessions
                  /\ now > sessions[tok].expiresAt
                  /\ (Protected(tok) \/ LoggingOut(tok)))
                 => tok \notin DOMAIN sessions'
       /\ \A sid \in DOMAIN sessions \ DOMAIN sessions' :
              now > sessions[sid].expiresAt =>
                  (Protected(sid) \/ LoggingOut(sid))
      ]_vars

\* one expired session was refused and removed on access while another,
\* expired as well but not presented since, is still in the store
C13_Witness ==
    /\ \E sid \in DOMAIN sessions : now > sessions[sid].expiresAt
    /\ resp.req.op \in ProtectedOps
    /\ resp.status = 401
    /\ resp.req.tok \in 1..issued.sids
    /\ resp.req.tok \notin DOMAIN sessions
    /\ resp.req.tok \notin trail.loggedOut

\* the first 64 characters of a string
First64(str) == IF Len(str) > 64 THEN SubSeq(str, 1, 64) ELSE str

\* the password verifies against the stored salt and hash
Verifies(password) ==
    pbkdf2Hash(password, store.creds.saltHex, store.creds.iter) = store.creds.hashHex

\* a failed login: 401 invalid_credentials, no cookie, the server as it was
Refused(out) ==
    /\ out.status = 401
    /\ out.body = [ok |-> FALSE, error |-> "invalid_credentials"]
    /\ out.cookie = 0
    /\ out.store = store /\ out.disk = disk /\ out.sessions = sessions
    /\ out.issued = issued /\ out.dev = dev /\ out.pulses = pulses

\* C14 as stated: a login with a username other than the stored one and a
\* login with the stored username and a wrong password (fields non-empty)
\* get the same response and leave the same server state
C14_SameRefusal ==
    \A u \in Usernames, p \in Passwords, q \in Passwords :
        (/\ StringOf(u) # "" /\ StringOf(p) # "" /\ StringOf(q) # ""
         /\ StringOf(u) # store.creds.username
         /\ ~Verifies(StringOf(q)))
        => /\ authLogin(u, p) = authLogin(<<store.creds.username>>, q)
           /\ Refused(authLogin(u, p))

\* C14: a login whose username, cut to its first 64 characters as the server
\* reads it, is not the stored username and a login with the stored username
\* and a wrong password (fields non-empty) get the same response (401
\* invalid_credentials, no cookie) and leave the same server state
C14_SameRefusalAsRead ==
    \A u \in Usernames, p \in Passwords, q \in Passwords :
        (/\ StringOf(u) # "" /\ StringOf(p) # "" /\ StringOf(q) # ""
         /\ First64(StringOf(u)) # store.creds.username
         /\ ~Verifies(StringOf(q)))
        => /\ authLogin(u, p) = authLogin(<<store.creds.username>>, q)
           /\ Refused(authLogin(u, p))

\* login("root", "admin") was refused while the stored user is admin/admin
C14_Witness ==
    /\ resp.req.op = "login"
    /\ resp.req.args = << <<"root">>, <<"admin">> >>
    /\ resp.status = 401
    /\ resp.body.error = "invalid_credentials"
    /\ resp.cookie = 0
    /\ store.creds.username = "admin"
    /\ Verifies("admin")

\* this step handles a login with the given fields
LoginStep == resp'.req.op = "login" /\ Serving

ChangeStep ==
    /\ resp'.req.op = "change"
    /\ ValidSession(resp'.req.tok)
    /\ Serving

\* C16: a credential change whose oldPassword does not verify answers
\* invalid_old_password and leaves the stored credentials, the rest of the
\* store and the persisted store as they were, whatever the new username and
\* password are
C16_OldPasswordFirst ==
    [][(ChangeStep /\ ~Verifies(StringOf(resp'.req.args[1]))) =>
            /\ resp'.status = 401
            /\ resp'.body.error = "invalid_old_password"
            /\ store' = store
            /\ disk' = disk]_vars

\* a change to root/hunter2 was refused for its old password
C16_Witness ==
    /\ resp.req.op = "change"
    /\ resp.req.args[2] = <<"root">>
    /\ resp.req.args[3] = <<"hunter2">>
    /\ resp.status = 401
    /\ resp.body.error = "invalid_old_password"
    /\ store.creds.username # "root"
    /\ ~Verifies("hunter2")

\* C17: a credential change with a correct oldPassword and a newPassword
\* shorter than 4 characters answers password_too_short and leaves the
\* stored username, salt and hash unchanged
C17_ShortPasswordRejected ==
    [][(/\ ChangeStep
        /\ Verifies(StringOf(resp'.req.args[1]))
        /\ resp'.req.args[3] # <<>>
        /\ Len(resp'.req.args[3][1]) < 4) =>
            /\ resp'.status = 400
            /\ resp'.body.error = "password_too_short"
            /\ store'.creds = store.creds]_vars

\* this step is a successful change of the password
PasswordChanged ==
    ChangeStep /\ resp'.status = 200 /\ StringOf(resp'.req.args[3]) # ""

\* the last request was a successful change of the password
PasswordJustChanged ==
    resp.req.op = "change" /\ resp.status = 200 /\ StringOf(resp.req.args[3]) # ""

\* C18 as stated: a successful password change stores a salt that was never
\* stored before and the hash of the new password under it; after it a login
\* with the new password succeeds and one with the old password fails
C18_FreshSalt ==
    /\ [][PasswordChanged =>
            /\ store'.creds.saltHex \notin trail.salts
            /\ store'.creds.hashHex =
                 pbkdf2Hash(resp'.req.args[3][1], store'.creds.saltHex,
                            store'.creds.iter)]_vars
    /\ [](PasswordJustChanged =>
            /\ authLogin(<<store.creds.username>>, resp.req.args[3]).status = 200
            /\ authLogin(<<store.creds.username>>, resp.req.args[1]).status = 401)

\* C18: as C18_FreshSalt, the login with the old password failing when the
\* old password differs from the new one
C18_FreshSaltNewPassword ==
    /\ [][PasswordChanged =>
            /\ store'.creds.saltHex \notin trail.salts
            /\ store'.creds.hashHex =
                 pbkdf2Hash(resp'.req.args[3][1], store'.creds.saltHex,
                            store'.creds.iter)]_vars
    /\ [](PasswordJustChanged =>
            /\ authLogin(<<store.creds.username>>, resp.req.args[3]).status = 200
            /\ (StringOf(resp.req.args[1]) # StringOf(resp.req.args[3])) =>
                  authLogin(<<store.creds.username>>, resp.req.args[1]).status = 401)

\* the password was changed twice: a third salt is stored
C18_Witness ==
    /\ PasswordJustChanged
    /\ resp.req.args[1] = <<"hunter2">>
    /\ resp.req.args[3] = <<"admin">>
    /\ store.creds.saltHex = 3
    /\ Cardinality(trail.salts) = 3

\* relay i (0-based) of the device arrays d is ON
RelayOn(d, i) == i + 1 <= Len(d.relays) /\ d.relays[i + 1]

\* a pulse width within [10, 10000] ms
Clamped(ms) == IF ms < 10 THEN 10 ELSE IF ms > 10000 THEN 10000 ELSE ms

\* this step handles a pulse request that names a relay of the device
PulseStep ==
    /\ resp'.req.op = "pulse"
    /\ resp'.status = 200
    /\ relayIndex(resp'.req.args[1]) % 10 = 0
    /\ Serving

\* the pulse request handled in this step switches its relay ON and starts
\* a pulse of the clamped width, which the response reports
PulseStarts ==
    PulseStep =>
        LET i == relayIndex(resp'.req.args[1]) \div 10
            ms == Clamped(resp'.req.args[2][1])
        IN /\ RelayOn(dev', i)
           /\ resp'.body.pulsed_ms = ms
           /\ \E p \in pulses' \ pulses :
                 p.i = i /\ p.at = now /\ p.due = now + ms

\* a pulse ends only when exactly its width has elapsed, with its relay OFF
PulseEnds ==
    \A p \in pulses \ pulses' : now = p.due /\ ~RelayOn(dev', p.i)

\* C19 as stated: a pulse request switches the relay ON at once for the
\* requested width clamped to [10, 10000] ms; while a pulse whose relay has
\* received no on/off command since is running, the relay is ON (other pulses
\* on the relay may overlap); the pulse ends when exactly its width has
\* elapsed and the relay is then OFF
C19_PulseOverlapping ==
    /\ [](\A p \in pulses :
            /\ now <= p.due
            /\ (p.id \notin trail.touched /\ now < p.due) => RelayOn(dev, p.i))
    /\ [][PulseStarts /\ PulseEnds]_vars

\* C19: as C19_PulseOverlapping, for the pulses whose relay has since
\* received no on/off command, has not been switched off by the timeout of
\* another pulse and has not been removed by a config write or reset
C19_PulseUndisturbed ==
    /\ [](\A p \in pulses :
            /\ now <= p.due
            /\ (p.id \notin trail.touched \cup trail.cut /\ now < p.due)
                  => RelayOn(dev, p.i))
    /\ [][PulseStarts /\ PulseEnds]_vars

\* a pulse of 50000 ms requested at 0 has ended at 10000 ms, its relay OFF
C19_Witness ==
    /\ resp.req.op = "pulse"
    /\ resp.req.args[2] = <<50000>>
    /\ resp.status = 200
    /\ resp.body.pulsed_ms = 10000
    /\ issued.timeouts = 1
    /\ pulses = {}
    /\ now = 10000
    /\ resp.req.args[1] = "1"
    /\ ~RelayOn(dev, 0)

\* C20: the device arrays are as long as the configured lists: one relay
\* flag per configured relay and one input flag per configured input
C20_DevMatchesConfig ==
    /\ Len(dev.relays) = Len(store.config.relays)
    /\ Len(dev.din) = Len(store.config.dis)

\* this step handles a relay request
RelayStep == resp'.req.op \in {"on", "off", "pulse"} /\ Serving

\* the path segment n is an integer in 1..N, N the number of configured relays
NamesRelay(n) ==
    LET x == NumberTimes10(n) IN
    /\ x.fin
    /\ x.v % 10 = 0
    /\ x.v >= 10
    /\ x.v <= 10 * Len(store.config.relays)

\* C21: a relay on/off/pulse request whose n is not an integer in 1..N is
\* answered 400 'bad relay number' and leaves the relay states as they were
C21_BadRelayRejected ==
    [][(RelayStep /\ ~NamesRelay(resp'.req.args[1])) =>
            /\ resp'.status = 400
            /\ resp'.body = [ok |-> FALSE, error |-> "bad relay number"]
            /\ dev'.relays = dev.relays]_vars

\* this step handles a config reset that passed requireAuth
ResetStep ==
    /\ resp'.req.op = "reset"
    /\ ValidSession(resp'.req.tok)
    /\ Serving

SaveStep ==
    /\ resp'.req.op = "postConfig"
    /\ ValidSession(resp'.req.tok)
    /\ Serving

\* the config a config write carries, every field missing when there is none
Sent(body) ==
    IF body = <<>>
    THEN [pageTitle |-> <<>>, relays |-> <<>>, dis |-> <<>>, values |-> <<>>]
    ELSE body[1]

\* C23: a config write is accepted whatever it carries; a list that is not
\* an array is stored as the default list of its field, and a list that is
\* an array keeps its length, a malformed entry getting an id, a name and
\* an enabled flag
C23_DefaultsSubstituted ==
    [][SaveStep =>
            LET c == Sent(resp'.req.args[1]) IN
            /\ resp'.status = 200
            /\ \A f \in {"relays", "dis", "values"} :
                  IF c[f] = <<>>
                  THEN store'.config[f] = defaultStore.config[f]
                  ELSE /\ Len(store'.config[f]) = Len(c[f][1])
                       /\ \A i \in 1..Len(store'.config[f]) :
                             /\ store'.config[f][i].id # ""
                             /\ store'.config[f][i].name # ""
                             /\ store'.config[f][i].enabled \in BOOLEAN
      ]_vars

\* C24: after a config write the i-th relay and the i-th digital input carry
\* the id of position i (i, or r<i> and d<i> as the defaults are written),
\* whatever ids the request carried
C24_IdsFollowPositions ==
    [][SaveStep =>
            /\ \A i \in 1..Len(store'.config.relays) :
                  store'.config.relays[i].id \in {ToString(i), "r" \o ToString(i)}
            /\ \A i \in 1..Len(store'.config.dis) :
                  store'.config.dis[i].id \in {ToString(i), "d" \o ToString(i)}
      ]_vars

\* the body b is a public config: a page title and three lists of points
\* of id, name and enabled, and no other field
OnlyPublicFields(b) ==
    /\ DOMAIN b = {"pageTitle", "relays", "dis", "values"}
    /\ \A f \in {"relays", "dis", "values"} :
          \A i \in 1..Len(b[f]) : DOMAIN b[f][i] = {"id", "name", "enabled"}

\* C25: in every state of the store, after config writes and credential
\* changes too, the answer to GET /api/publicConfig holds the page title and
\* the relay, digital input and value lists and no credential field
C25_PublicConfigOnly ==
    /\ OnlyPublicFields(publicConfig)
    /\ resp.req.op = "publicConfig" =>
          resp.status = 200 /\ OnlyPublicFields(resp.body)

\* the public config was served after the credentials were changed and
\* after a write whose entries carried credential fields was stored
C25_Witness ==
    /\ resp.req.op = "publicConfig"
    /\ store.creds.username = "root"
    /\ Len(store.config.relays) = 2
    /\ store.config.relays[1].id = "r2"
    /\ resp.body.relays = store.config.relays

\* C30: every relay, digital input and value name and the page title of the
\* stored config are at most 40 characters long
C30_NamesClamped ==
    /\ Len(store.config.pageTitle) <= 40
    /\ \A f \in {"relays", "dis", "values"} :
          \A i \in 1..Len(store.config[f]) : Len(store.config[f][i].name) <= 40

\* a write with a title and a name of 41 characters was stored, cut to 40
C30_Witness ==
    /\ resp.req.op = "postConfig"
    /\ resp.status = 200
    /\ store.config.pageTitle = SubSeq(Title41, 1, 40)
    /\ \E i \in 1..Len(store.config.dis) :
          store.config.dis[i].name = SubSeq(Name41, 1, 40)

\* this step handles a config write, a reset or a credential change that
\* passes every check of its handler while the disk fails
WriteFails ==
    /\ resp'.req.op \in {"postConfig", "reset", "change"}
    /\ ~diskOk
    /\ resp'.status \notin {400, 401}
    /\ Serving

\* what the request handled in this step makes of the store in memory
Unsaved ==
    LET r == resp'.req IN
    CASE r.op = "postConfig" ->
            /\ store'.config = normalizeConfig(r.args[1])
            /\ store'.creds = store.creds
      [] r.op = "reset" ->
            /\ store'.config = defaultStore.config
            /\ store'.creds = store.creds
      [] r.op = "change" ->
            /\ store'.config = store.config
            /\ store'.creds.username =
                    IF r.args[2] = <<>> THEN store.creds.username ELSE r.args[2][1]
            /\ IF r.args[3] = <<>> THEN store'.creds = [store.creds EXCEPT
                                            !.username = store'.creds.username]
               ELSE /\ store'.creds.saltHex \notin trail.salts
                    /\ store'.creds.hashHex =
                            pbkdf2Hash(r.args[3][1], store'.creds.saltHex,
                                       store'.creds.iter)

\* C28: a disk write that fails during a config save, a reset or a
\* credential change is reported to the caller of that request (500) and to
\* nobody else: the sessions stay, and the config is served on as before;
\* the store in memory keeps the new value, which the store file lacks
C28_WriteFailureNotRolledBack ==
    [][/\ WriteFails =>
            /\ resp'.status = 500
            /\ Unsaved
            /\ disk' = disk
            /\ sessions' = sessions
       /\ (resp'.req.op = "publicConfig" /\ Serving) =>
            /\ resp'.status = 200
            /\ resp'.body.relays = store.config.relays
       /\ (resp'.req.op = "getConfig" /\ ValidSession(resp'.req.tok) /\ Serving) =>
            /\ resp'.status = 200
            /\ resp'.body.config = store.config
      ]_vars

\* a config write and a credential change failed on the disk, and session 2
\* then read the written config, which the store file does not hold
C28_Witness ==
    /\ ~diskOk
    /\ resp.req.op = "getConfig"
    /\ resp.req.tok = 2
    /\ resp.status = 200
    /\ resp.body.config = store.config
    /\ store.config # disk.config
    /\ store.creds # disk.creds

----------------------------------------------------------------------------
(* Properties of the dashboard beside the setup page *)

\* the relays with a command in flight: sent and not yet answered, or
\* answered with the follow-up refresh still out
InFlight ==
    {c.n : c \in cmds} \cup {f.n : f \in {g \in fetches : g.origin = "cmd"}}

\* C26: from the click until the command and its follow-up refresh finish
\* or fail, the buttons of that relay are disabled and those of every other
\* relay are enabled; they are enabled again when the command has finished
C26_OnlyOwnButtonsDisabled == dom.btnDisabled = InFlight

\* relay 1 waits for its follow-up refresh with its buttons disabled, while
\* the command of relay 3 has finished and relay 3 can be clicked again
C26_Witness ==
    /\ count.cmds = 2
    /\ \E f \in fetches : f.origin = "cmd" /\ f.n = 1
    /\ \E k \in 1..Len(dom.relayPanels) : dom.relayPanels[k] = 3
    /\ dom.btnDisabled = {1}

\* this step ends a relay action in failure: the fetch rejects, or the
\* server's answer is no 2xx
RelayActionFails ==
    \E c \in cmds : CmdFail(c) \/ (c.stage = "bad" /\ CmdReply(c))

\* this step answers a login or a config save with a failure
PageActionFails ==
    /\ resp'.req.op \in {"login", "postConfig"}
    /\ resp'.status # 200
    /\ Serving

\* C27: a relay command, a login or a config save that fails leaves
\* state.timerId, state.pollMs and the intervals as they were, and once the
\* polling loop runs its interval is still there to fire
C27_FailureLeavesPolling ==
    [][(RelayActionFails \/ PageActionFails) =>
            /\ state'.timerId = state.timerId
            /\ state'.pollMs = state.pollMs
            /\ timers' = timers
            /\ pc' = "running" =>
                    \E t \in timers' : /\ t.fn = "refreshStatus"
                                        /\ t.id = state'.timerId
                                        /\ t.ms = state'.pollMs
      ]_vars

\* the command of relay 3 was answered 400 and its handler has ended, the
\* polling loop runs and a tick's poll is out
C27_Witness ==
    /\ resp.req.op = "on"
    /\ resp.status = 400
    /\ cmds = {}
    /\ dom.btnDisabled = {}
    /\ pc = "running"
    /\ \E t \in timers : t.fn = "refreshStatus" /\ t.id = state.timerId
    /\ \E f \in fetches : f.origin = "tick"

\* the document shows the title and the enabled points of the stored config
Reflects(d) ==
    /\ d.pageTitle = (IF store.config.pageTitle = "" THEN "Device"
                      ELSE store.config.pageTitle)
    /\ d.relayPanels = SeqFilterIdx(store.config.relays, 1)
    /\ d.diRows = SeqFilterIdx(store.config.dis, 1)
    /\ d.valueRows = ValueRows(store.config.values)

\* C29: when a poll issued after the last successful config save succeeds,
\* the open dashboard shows the saved config
C29_DashboardFollowsSave ==
    [][\A f \in fetches :
            (f.seq > trail.savedAt /\ PollOk(f)) => Reflects(dom')
      ]_vars

\* C31: the command a click in the panel of the relay at protocol index n
\* sends reaches the server as /api/relay/n/<action> of the clicked action,
\* n being the position of an enabled relay in the config the page was
\* built from, and the server applies it to relay n
C31_ClickSendsOwnIndex ==
    [][\A c \in cmds : ServerRelay(c) =>
            /\ resp'.req.args[1] = ToString(c.n)
            /\ resp'.req.op = c.action
            /\ c.n \in 1..Len(state.config[1].relays)
            /\ state.config[1].relays[c.n].enabled
            /\ resp'.status = 200
            /\ dev'.relays[c.n] = (c.action # "off")
            /\ \A j \in 1..Len(dev.relays) : j # c.n => dev'.relays[j] = dev.relays[j]
      ]_vars

\* relays 1 and 3 are disabled, the page shows the panels of relays 2 and 4,
\* and the click in the second panel switched relay 4 on
C31_Witness ==
    /\ dom.relayPanels = <<2, 4>>
    /\ ~store.config.relays[1].enabled
    /\ resp.req.op = "on"
    /\ resp.req.args[1] = "4"
    /\ dev.relays = <<FALSE, FALSE, FALSE, TRUE>>

\* point i (1-based) of a device array reads as ON, as customState reads it
PointOn(arr, i) == i <= Len(arr) /\ arr[i]

\* the device array arr is left as arr2 by a change of the list from M to N
\* points: the first min(M, N) as they were, the new ones OFF
Resized(arr, arr2, M, N) ==
    /\ \A i \in 1..Min(M, N) : PointOn(arr2, i) = PointOn(arr, i)
    /\ \A i \in (M + 1)..N : ~PointOn(arr2, i)

\* this step handles a config write or a reset of a valid session
ConfigStep ==
    /\ resp'.req.op \in {"postConfig", "reset"}
    /\ ValidSession(resp'.req.tok)
    /\ Serving

\* C32: a config write or reset that takes the relays from M to N keeps
\* the ON/OFF state of relays 1..min(M, N) and leaves relays M+1..N OFF, and
\* likewise for the digital inputs
C32_ResizeKeepsStates ==
    [][ConfigStep =>
            /\ Resized(dev.relays, dev'.relays,
                       Len(store.config.relays), Len(store'.config.relays))
            /\ Resized(dev.din, dev'.din,
                       Len(store.config.dis), Len(store'.config.dis))
      ]_vars

\* the last request handled is a relay command the server applied to the
\* relay at index i (0-based)
LastApplied(i) ==
    /\ resp.req.op \in {"on", "off", "pulse"}
    /\ resp.status = 200
    /\ NumberTimes10(resp.req.args[1]).v = 10 * (i + 1)

\* the relay command handled in this step changes no relay but its own, no
\* digital input and nothing of the store
OnlyOwnRelay ==
    /\ \A j \in 1..Max(Len(dev.relays), Len(dev'.relays)) :
          NumberTimes10(resp'.req.args[1]).v # 10 * j
              => PointOn(dev'.relays, j) = PointOn(dev.relays, j)
    /\ dev'.din = dev.din
    /\ store' = store

\* C33: a relay command changes only its relay and leaves the other relays,
\* the digital inputs, the config and the credentials as they were, whatever
\* the order of the commands; with no pulse pending, a relay is ON exactly
\* when the last command handled for it was On
C33_LastCommandWins ==
    /\ [][RelayStep => OnlyOwnRelay]_vars
    /\ [](\A i \in 0..3 :
            (pulses = {} /\ LastApplied(i))
                => (RelayOn(dev, i) <=> resp.req.op = "on"))

\* C37: a relay that an On command switched ON, and that has received no
\* request since, is switched OFF by nothing but an Off or Pulse command for
\* it or a config write or reset
C37_OnIsKept ==
    [][\A i \in 0..3 :
            (LastApplied(i) /\ resp.req.op = "on" /\ RelayOn(dev, i)
                /\ ~RelayOn(dev', i))
            => \/ (RelayStep /\ resp'.req.op \in {"off", "pulse"}
                             /\ NumberTimes10(resp'.req.args[1]).v = 10 * (i + 1))
               \/ ConfigStep
      ]_vars

\* this step completes a poll, with a snapshot or with a failure
PollCompletes ==
    /\ fetches' # fetches
    /\ \E f \in fetches \ fetches' :
          PollOk(f) \/ \E kind \in {"transport", "http"} : PollFail(f, kind)

\* C34: when a poll has completed, the reconnect button is enabled exactly
\* when state.connected is false; a click on it while state.connected is
\* true starts no poll
C34_ReconnectFollowsConnected ==
    [][/\ PollCompletes => (dom'.refreshDisabled <=> state'.connected)
       /\ (state.connected /\ ClickReconnect) =>
                fetches' = fetches /\ count' = count
      ]_vars

\* before the polling loop started, a poll failed, the button was clicked
\* and its poll has completed; the last poll to complete succeeded: the page
\* is connected and the button disabled
C34_Witness ==
    /\ pc = "startTimer"
    /\ count.polls = 3
    /\ count.cmds = 0
    /\ fetches = {}
    /\ hist.last = "ok"
    /\ state.connected
    /\ dom.refreshDisabled

\* this step handles a credential change with a correct oldPassword, a
\* newUsername that is not empty and no newPassword
RenameStep ==
    /\ resp'.req.op = "change"
    /\ resp'.req.args[2] \notin {<<>>, <<"">>}
    /\ resp'.req.args[3] \in {<<>>, <<"">>}
    /\ Verifies(StringOf(resp'.req.args[1]))
    /\ ChangeStep

\* C35: a credential change with a correct oldPassword, a newUsername and no
\* newPassword stores the new username (its first 64 characters) and leaves
\* salt, hash, iteration count and config as they were; the old password
\* logs in under the new username
C35_RenameKeepsPassword ==
    [][RenameStep =>
            /\ resp'.status = 200
            /\ store'.creds = [store.creds EXCEPT
                                !.username = clampStr(resp'.req.args[2], 64)]
            /\ store'.config = store.config
            /\ (authLogin(<<store.creds.username>>, resp.req.args[1]).status = 200)'
      ]_vars

\* the account was renamed to root with no new password, and root then
\* logged in with the password and under the salt of the first start
C35_Witness ==
    /\ resp.req.op = "login"
    /\ resp.req.args = << <<"root">>, <<"admin">> >>
    /\ resp.status = 200
    /\ store.creds.username = "root"
    /\ store.creds.saltHex = 1

\* C36: every active polling interval has the period state.pollMs; after a
\* change of pollMs no interval of the old period is left
C36_TimersFollowPollMs ==
    \A t \in timers : t.fn = "refreshStatus" => t.ms = state.pollMs

\* C38: a successful credential change leaves the session map as it was,
\* and every session that was valid before it, those of other clients
\* logged in under the old credentials included, passes requireAuth after it
C38_ChangeKeepsSessions ==
    [][(resp'.status = 200 /\ ChangeStep) =>
            /\ sessions' = sessions
            /\ \A tok \in DOMAIN sessions :
                  ValidSession(tok) => (getConfig(tok).status = 200)'
      ]_vars

\* the credentials are root/hunter2 and session 2, which can only have
\* logged in as admin/admin, has read the config since
C38_Witness ==
    /\ store.creds.username = "root"
    /\ Verifies("hunter2")
    /\ resp.req.op = "getConfig"
    /\ resp.req.tok = 2
    /\ resp.status = 200

\* C39: once the public-config fetch of boot() has failed, the page stays
\* as loaded: no panel is built, no poll is or has been issued, no interval
\* runs, no command is sent, and boot() does not run again
C39_FailedBootStaysIdle ==
    /\ [](pc = "failed" =>
            /\ dom = dom0
            /\ state = state0
            /\ timers = {}
            /\ fetches = {}
            /\ cmds = {}
            /\ count = [timers |-> 0, polls |-> 0, cmds |-> 0])
    /\ [][pc = "failed" => pc' = "failed"]_vars

\* the config fetch failed and the device has gone on since: an input is on
C39_Witness ==
    /\ pc = "failed"
    /\ dev.register1 > 0

\* C40: normalizing a normalized config changes nothing: a config write
\* that carries the stored config, itself the normalizeConfig of an earlier
\* write, stores that same config
C40_NormalizeIdempotent ==
    [][(SaveStep /\ resp'.req.args[1] = AsBody(store.config)) =>
            /\ normalizeConfig(AsBody(store.config)) = store.config
            /\ store'.config = store.config
      ]_vars

====
